---- MODULE Spec2Model ----
(***************************************************************************)
(* A model of the bgg-gg backend: the file-backed CacheManager             *)
(* (src/backend/cacheManager.js), the EventManager                         *)
(* (src/backend/eventManager.js) with its HTTP routes, and the collection  *)
(* sync (checkForNewGames / fetchGameDetails of the server).               *)
(*                                                                         *)
(* Every await of the JavaScript code is a step boundary: the code between *)
(* two awaits runs atomically on the event loop, the file-system call      *)
(* awaited runs as its own step.                                           *)
(***************************************************************************)
EXTENDS Integers, Sequences, FiniteSets, TLC

(***************************************************************************)
(* Bounds of the model and configuration of the cache (time in abstract    *)
(* ticks, sizes in chunks).                                                *)
(***************************************************************************)
MaxClock == 3
MaxOps == 2
MaxReqs == 2
MaxGames == 3
MaxBallot == 3
MaxSyncs == 2
DefaultTTL == 2
RoomySize == 10

Keys == {"k1", "k2", "k3"}
HotKeys == {"k1"}
Clients == {"c1", "c2"}
Vals == {"a", "b", "c"}

\* The payloads a client writes: "a" and "b" serialise to two chunks, "c" to one.
ValsOf(c) == IF c = "c1" THEN {"a"} ELSE {"b"}
RaceValsOf(c) == IF c = "c1" THEN {"a"} ELSE {"b", "c"}
SizeOf(v) == IF v = "c" THEN 1 ELSE 2

\* ttl arguments: 0 stands for "no ttl argument" (null), which `||` treats as 0.
ShortTTL == DefaultTTL - 1
LongTTL == DefaultTTL + 1
TtlArgs == {0, ShortTTL, LongTTL}

Inodes == 1 .. (Cardinality(Keys) + Cardinality(Clients) + 1)

\* cfg        the settings the constructor reads from the environment
\* now        Date.now()
\* ino        the content of every inode
\* fpath      the inode the entry path <key>.json names, NoIno when absent
\* tpath      the inode the temp path <key>.json.tmp names
\* lock       whether the lock marker <key>.json.lock exists
\* cl         the calls the clients have in progress
\* sw         the cleanup in progress
\* sched      a cleanup queued by setImmediate
\* eino       the content of every inode of the events directory
\* efile      the inode the event path <id>.json names, NoIno when absent
\* rq         the HTTP requests in progress
\* sy         the collection sync in progress (checkForNewGames or fetchFullCollection)
\* entry      the cache entry <username>_detailed.json of the user being synced
\* cat        how the catalog answers detail requests
\* past       the syncs started and completed so far, and the last summary synced
\* es         the cleanup of the events directory in progress
\* runs       the fetchGameDetails call of every request that is in one
VARIABLES cfg, now, ino, fpath, tpath, lock, cl, sw, sched, eino, efile, rq,
          sy, entry, cat, past, es, runs

cacheVars == <<cfg, now, ino, fpath, tpath, lock, cl, sw, sched>>
eventVars == <<eino, efile, rq, es>>
syncVars == <<sy, entry, cat, past, runs>>
vars == <<cacheVars, eventVars, syncVars>>

\* What a step of the cache, of an event route, or of the sync leaves alone.
nonCache == <<eventVars, syncVars>>
nonEvent == <<cacheVars, syncVars, es>>
nonSync == <<cfg, ino, fpath, tpath, lock, cl, sw, sched, eventVars, runs>>

(***************************************************************************)
(* Events and the requests on them.                                        *)
(***************************************************************************)
NoIno == 0

EventIds == {"e1", "e2"}
HotEvents == {"e1"}
Slots == {"r1", "r2"}
Users == {"u1", "u2"}
GameIds == {"A", "B"}
Fingerprints == {"f1", "f2"}
Names == {"Game Night", "Friday"}
NoToken == "none"
Secrets == {"t1", "t2"}
Tokens == {NoToken} \cup Secrets
Rankings == {<<"A">>, <<"X", "B", "B">>}

\* An event file: absent, empty (opened for writing, nothing written yet),
\* bytes that do not parse, or the JSON document of an event.
NoFile == [st |-> "none"]
Truncated == [st |-> "empty"]
Garbled(n) == [st |-> "corrupt", len |-> n]
NoVotes == [f \in {} |-> <<>>]

EInodes == 1 .. (Cardinality(EventIds) + Cardinality(Slots))

\* pc, kind .. user: where the request stands and what it asked for; fields,
\* games, votes, name: the `updates` object handed to update(); doc: the event a
\* method holds or writes; fd: the descriptor of its writeFile; list, acc: the
\* loop of listByUser; status, body (the events in it), scores, voterCount: the
\* response; n counts the slot's requests; seen (history) is the event that
\* addGame, removeGame or vote got from its own get.
IdleRq ==
  [pc |-> "idle", kind |-> "none", id |-> "e1", token |-> NoToken, game |-> "A",
   fp |-> "f1", rank |-> <<>>, name |-> "Game Night", user |-> "u1",
   fields |-> {}, games |-> <<>>, votes |-> NoVotes, doc |-> NoFile, fd |-> NoIno,
   list |-> <<>>, acc |-> <<>>, status |-> 0, body |-> <<>>, scores |-> <<>>,
   voterCount |-> 0, seen |-> NoFile, n |-> 0]

(***************************************************************************)
(* File contents.  A file is a sequence of chunks; a chunk remembers the   *)
(* entry it was serialised from.  JSON.stringify({metadata, data}) puts    *)
(* the metadata first, so chunk 1 carries the metadata; the data spreads   *)
(* over all chunks; the last chunk closes the document.                    *)
(***************************************************************************)
Hole == [ts |-> 0 - 1, ttl |-> 0, val |-> "hole", j |-> 0, last |-> FALSE]

Chunk(ts, ttl, v, j) == [ts |-> ts, ttl |-> ttl, val |-> v, j |-> j, last |-> (j = SizeOf(v))]

Serialize(ts, ttl, v) == [j \in 1 .. SizeOf(v) |-> Chunk(ts, ttl, v, j)]

\* write(fd, chunk) at the descriptor's own offset: overwrites in place, pads a
\* hole when the file was truncated below the offset.
WriteAt(content, p, ch) ==
  [j \in 1 .. (IF Len(content) > p THEN Len(content) ELSE p) |->
     IF j = p THEN ch
     ELSE IF j <= Len(content) THEN content[j]
     ELSE Hole]

\* JSON.parse succeeds on one complete document with nothing after it.
Parses(content) ==
  /\ Len(content) >= 1
  /\ content[Len(content)].last
  /\ \A j \in 1 .. Len(content) : content[j].j = j
  /\ \A j \in 1 .. (Len(content) - 1) : ~content[j].last

MetaOf(content) == [ts |-> content[1].ts, ttl |-> content[1].ttl]

DataOf(content) == [j \in 1 .. Len(content) |-> content[j].val]

\* The payload v as get returns it when it is intact.
Full(v) == [j \in 1 .. SizeOf(v) |-> v]

Null == <<>>

\* customTTL || this.defaultTTL
EffTtl(customTTL) == IF customTTL # 0 THEN customTTL ELSE cfg.defaultTTL

\* _isExpired(metadata, customTTL) at time t
IsExpired(ts, customTTL, t) == (t - ts) > EffTtl(customTTL)

(***************************************************************************)
(* Inodes: a path names an inode, an open descriptor keeps writing to the  *)
(* inode it opened even after the path was renamed or unlinked.            *)
(***************************************************************************)
Referenced(i, fp, tp, c_) ==
  \/ \E k \in Keys : fp[k] = i \/ tp[k] = i
  \/ \E c \in Clients : c_[c].fd = i

FreeIno ==
  CHOOSE i \in Inodes :
    /\ ~Referenced(i, fpath, tpath, cl)
    /\ \A j \in Inodes : j < i => Referenced(j, fpath, tpath, cl)

Collect(n, fp, tp, c_) ==
  [i \in Inodes |-> IF Referenced(i, fp, tp, c_) THEN n[i] ELSE <<>>]

FileSize(k) == IF fpath[k] = NoIno THEN 0 ELSE Len(ino[fpath[k]])

RECURSIVE SumSizes(_)
SumSizes(ks) ==
  IF ks = {} THEN 0
  ELSE LET k == CHOOSE x \in ks : TRUE
       IN  FileSize(k) + SumSizes(ks \ {k})

(***************************************************************************)
(* Clients of the cache.                                                   *)
(***************************************************************************)
\* pc .. data are the locals of the call in progress.  History variables: n counts
\* the calls made; wrote tells that a set of the client has returned true; val, ttl, ts
\* stay those of the client's last set; seenTs, seenTtl are the metadata a get
\* read, tread the time at which it looked; quiet tells that no set was in flight when the get was
\* called nor started since; track is explained at Touch.
IdleClient ==
  [pc |-> "idle", op |-> "none", key |-> "k1", val |-> "a", ttl |-> 0, ts |-> 0,
   gttl |-> 0, fd |-> NoIno, pos |-> 0, ok |-> FALSE, data |-> Null, seenTs |-> 0 - 1,
   seenTtl |-> 0, tread |-> 0, quiet |-> FALSE, track |-> "off", wrote |-> FALSE,
   locked |-> FALSE, n |-> 0]

SetPcs == {"set_lock", "set_open", "set_write", "set_rename", "set_unlock",
           "set_catch1", "set_catch2", "set_stats"}

InSet(c) == cl[c].pc \in SetPcs

\* History variable of a client: track = "clean" from the call of its set,
\* "dirty" once anybody else changed a file of the same key (entry, temp file
\* or lock marker) after that, "off" when its last call was no successful set.
Touch(k, c_) ==
  [c \in Clients |->
     IF c_[c].key = k /\ c_[c].track = "clean" THEN [c_[c] EXCEPT !.track = "dirty"]
     ELSE c_[c]]

\* The clients after `self` changed a file of key k and moved to record rec.
Touched(self, k, rec) == [Touch(k, cl) EXCEPT ![self] = rec]

CanCall(c) == cl[c].pc = "idle" /\ cl[c].n < MaxOps

(***************************************************************************)
(* set(key, data, customTTL), cacheManager.js 140-168, with _atomicWrite   *)
(* (113-137) and the stats check that schedules a cleanup.                 *)
(***************************************************************************)
SetCall(c, k, v, t) ==
  /\ CanCall(c)
  /\ cl' = [d \in Clients |->
              IF d = c
              THEN [cl[c] EXCEPT !.pc = "set_lock", !.op = "set", !.key = k, !.val = v,
                                 !.ttl = t, !.ts = now, !.track = "clean", !.n = @ + 1]
              ELSE IF cl[d].op = "get" THEN [cl[d] EXCEPT !.quiet = FALSE]
              ELSE cl[d]]
  /\ UNCHANGED <<nonCache, cfg, now, ino, fpath, tpath, lock, sw, sched>>

\* fs.writeFile(lockPath, '')
SetLock(c) ==
  /\ cl[c].pc = "set_lock"
  /\ lock' = [lock EXCEPT ![cl[c].key] = TRUE]
  /\ cl' = Touched(c, cl[c].key, [cl[c] EXCEPT !.pc = "set_open"])
  /\ UNCHANGED <<nonCache, cfg, now, ino, fpath, tpath, sw, sched>>

\* fs.writeFile(tempPath, data), its open: O_CREAT | O_TRUNC
SetOpen(c) ==
  /\ cl[c].pc = "set_open"
  /\ LET k == cl[c].key
         i == IF tpath[k] = NoIno THEN FreeIno ELSE tpath[k]
     IN  /\ tpath' = [tpath EXCEPT ![k] = i]
         /\ ino' = [ino EXCEPT ![i] = <<>>]
         /\ cl' = Touched(c, k, [cl[c] EXCEPT !.pc = "set_write", !.fd = i, !.pos = 0])
  /\ UNCHANGED <<nonCache, cfg, now, fpath, lock, sw, sched>>

\* fs.writeFile(tempPath, data), one write of its loop; the close after the last
SetWrite(c) ==
  /\ cl[c].pc = "set_write"
  /\ LET k == cl[c].key
         p == cl[c].pos + 1
         i == cl[c].fd
         n == [ino EXCEPT ![i] = WriteAt(ino[i], p, Chunk(cl[c].ts, EffTtl(cl[c].ttl), cl[c].val, p))]
         rec == IF p = SizeOf(cl[c].val)
                THEN [cl[c] EXCEPT !.pc = "set_rename", !.fd = NoIno, !.pos = 0]
                ELSE [cl[c] EXCEPT !.pos = p]
     IN  /\ cl' = Touched(c, k, rec)
         /\ ino' = Collect(n, fpath, tpath, cl')
  /\ UNCHANGED <<nonCache, cfg, now, fpath, tpath, lock, sw, sched>>

\* fs.rename(tempPath, filePath); ENOENT when the temp path is gone
SetRename(c) ==
  /\ cl[c].pc = "set_rename"
  /\ LET k == cl[c].key
     IN  IF tpath[k] = NoIno
         THEN /\ cl' = [cl EXCEPT ![c].pc = "set_catch1"]
              /\ UNCHANGED <<ino, fpath, tpath>>
         ELSE /\ fpath' = [fpath EXCEPT ![k] = tpath[k]]
              /\ tpath' = [tpath EXCEPT ![k] = NoIno]
              /\ cl' = Touched(c, k, [cl[c] EXCEPT !.pc = "set_unlock"])
              /\ ino' = Collect(ino, fpath', tpath', cl')
  /\ UNCHANGED <<nonCache, cfg, now, lock, sw, sched>>

\* A set that leaves its lock marker behind.
SetUnlockKeepsLock(c) ==
  /\ cl[c].pc = "set_unlock"
  /\ cl' = [cl EXCEPT ![c].pc = "set_stats"]
  /\ UNCHANGED <<nonCache, cfg, now, ino, fpath, tpath, lock, sw, sched>>

\* fs.unlink(lockPath); ENOENT when the marker is gone
SetUnlock(c) ==
  /\ cl[c].pc = "set_unlock"
  /\ LET k == cl[c].key
     IN  IF lock[k]
         THEN /\ lock' = [lock EXCEPT ![k] = FALSE]
              /\ cl' = Touched(c, k, [cl[c] EXCEPT !.pc = "set_stats"])
         ELSE /\ cl' = [cl EXCEPT ![c].pc = "set_catch1"]
              /\ UNCHANGED lock
  /\ UNCHANGED <<nonCache, cfg, now, ino, fpath, tpath, sw, sched>>

\* catch: fs.unlink(tempPath).catch(() => {})
SetCatch1(c) ==
  /\ cl[c].pc = "set_catch1"
  /\ LET k == cl[c].key
     IN  /\ tpath' = [tpath EXCEPT ![k] = NoIno]
         /\ cl' = IF tpath[k] = NoIno
                  THEN [cl EXCEPT ![c].pc = "set_catch2"]
                  ELSE Touched(c, k, [cl[c] EXCEPT !.pc = "set_catch2"])
         /\ ino' = Collect(ino, fpath, tpath', cl')
  /\ UNCHANGED <<nonCache, cfg, now, fpath, lock, sw, sched>>

\* A catch that returns false and leaves the lock marker where it is.
SetCatch2KeepsLock(c) ==
  /\ cl[c].pc = "set_catch2"
  /\ cl' = [cl EXCEPT ![c].pc = "ret", ![c].ok = FALSE, ![c].track = "off"]
  /\ UNCHANGED <<nonCache, cfg, now, ino, fpath, tpath, lock, sw, sched>>

\* catch: fs.unlink(lockPath).catch(() => {}); throw; set returns false
SetCatch2(c) ==
  /\ cl[c].pc = "set_catch2"
  /\ LET k == cl[c].key
     IN  /\ lock' = [lock EXCEPT ![k] = FALSE]
         /\ cl' = IF lock[k]
                  THEN Touched(c, k, [cl[c] EXCEPT !.pc = "ret", !.ok = FALSE, !.track = "off"])
                  ELSE [cl EXCEPT ![c].pc = "ret", ![c].ok = FALSE, ![c].track = "off"]
  /\ UNCHANGED <<nonCache, cfg, now, ino, fpath, tpath, sw, sched>>

\* getStats() and the 80% check: setImmediate(() => this._cleanup()); return true
SetStats(c) ==
  /\ cl[c].pc = "set_stats"
  /\ sched' = (sched \/ 10 * SumSizes(Keys) > 8 * cfg.maxCacheSize)
  /\ cl' = [cl EXCEPT ![c].pc = "ret", ![c].ok = TRUE]
  /\ UNCHANGED <<nonCache, cfg, now, ino, fpath, tpath, lock, sw>>

(***************************************************************************)
(* get(key, customTTL), cacheManager.js 171-203.                           *)
(***************************************************************************)
\* A get that looks at the entry file without looking at the lock marker.
GetCallIgnoresLock(c, k, t) ==
  /\ CanCall(c)
  /\ LET rec == [cl[c] EXCEPT !.op = "get", !.key = k, !.gttl = t, !.n = @ + 1,
                              !.tread = now, !.locked = lock[k],
                              !.track = IF k = cl[c].key THEN @ ELSE "off",
                              !.quiet = (\A d \in Clients \ {c} : ~InSet(d))]
     IN  cl' = [cl EXCEPT ![c] =
                  IF fpath[k] = NoIno
                  THEN [rec EXCEPT !.pc = "ret", !.data = Null]
                  ELSE [rec EXCEPT !.pc = "get_read"]]
  /\ UNCHANGED <<nonCache, cfg, now, ino, fpath, tpath, lock, sw, sched>>

\* the synchronous prefix: existsSync(lockPath), existsSync(filePath)
\* (history: locked is whether the lock marker existed at the call)
GetCall(c, k, t) ==
  /\ CanCall(c)
  /\ LET rec == [cl[c] EXCEPT !.op = "get", !.key = k, !.gttl = t, !.n = @ + 1,
                              !.tread = now, !.locked = lock[k],
                              !.track = IF k = cl[c].key THEN @ ELSE "off",
                              !.quiet = (\A d \in Clients \ {c} : ~InSet(d))]
     IN  cl' = [cl EXCEPT ![c] =
                  IF lock[k] \/ fpath[k] = NoIno
                  THEN [rec EXCEPT !.pc = "ret", !.data = Null]
                  ELSE [rec EXCEPT !.pc = "get_read"]]
  /\ UNCHANGED <<nonCache, cfg, now, ino, fpath, tpath, lock, sw, sched>>

\* fs.readFile, JSON.parse, _isExpired; any error returns null
GetRead(c) ==
  /\ cl[c].pc = "get_read"
  /\ LET k == cl[c].key
         content == ino[fpath[k]]
     IN  cl' = [cl EXCEPT ![c] =
                  IF fpath[k] = NoIno \/ ~Parses(content)
                  THEN [@ EXCEPT !.pc = "ret", !.data = Null]
                  ELSE IF IsExpired(MetaOf(content).ts, cl[c].gttl, now)
                  THEN [@ EXCEPT !.pc = "get_del", !.seenTs = MetaOf(content).ts,
                                 !.seenTtl = MetaOf(content).ttl, !.tread = now]
                  ELSE [@ EXCEPT !.pc = "ret", !.data = DataOf(content),
                                 !.seenTs = MetaOf(content).ts,
                                 !.seenTtl = MetaOf(content).ttl, !.tread = now]]
  /\ UNCHANGED <<nonCache, cfg, now, ino, fpath, tpath, lock, sw, sched>>

\* await this.delete(key); return null
GetDel(c) ==
  /\ cl[c].pc = "get_del"
  /\ LET k == cl[c].key
     IN  /\ fpath' = [fpath EXCEPT ![k] = NoIno]
         /\ cl' = IF fpath[k] = NoIno
                  THEN [cl EXCEPT ![c].pc = "ret", ![c].data = Null]
                  ELSE Touched(c, k, [cl[c] EXCEPT !.pc = "ret", !.data = Null])
         /\ ino' = Collect(ino, fpath', tpath, cl')
  /\ UNCHANGED <<nonCache, cfg, now, tpath, lock, sw, sched>>

(***************************************************************************)
(* delete(key), cacheManager.js 206-216.                                   *)
(***************************************************************************)
\* A delete that takes the lock marker of the key along.
DeleteOpTakesLock(c, k) ==
  /\ CanCall(c)
  /\ fpath' = [fpath EXCEPT ![k] = NoIno]
  /\ LET rec == [cl[c] EXCEPT !.pc = "ret", !.op = "delete", !.key = k, !.n = @ + 1,
                              !.ok = (fpath[k] # NoIno), !.track = "off"]
     IN  cl' = IF fpath[k] = NoIno THEN [cl EXCEPT ![c] = rec] ELSE Touched(c, k, rec)
  /\ ino' = Collect(ino, fpath', tpath, cl')
  /\ lock' = [lock EXCEPT ![k] = FALSE]
  /\ UNCHANGED <<nonCache, cfg, now, tpath, sw, sched>>

DeleteOp(c, k) ==
  /\ CanCall(c)
  /\ fpath' = [fpath EXCEPT ![k] = NoIno]
  /\ LET rec == [cl[c] EXCEPT !.pc = "ret", !.op = "delete", !.key = k, !.n = @ + 1,
                              !.ok = (fpath[k] # NoIno), !.track = "off"]
     IN  cl' = IF fpath[k] = NoIno THEN [cl EXCEPT ![c] = rec] ELSE Touched(c, k, rec)
  /\ ino' = Collect(ino, fpath', tpath, cl')
  /\ UNCHANGED <<nonCache, cfg, now, tpath, lock, sw, sched>>

(***************************************************************************)
(* exists(key, customTTL), cacheManager.js 219-231.  Its answer is kept in *)
(* the field ok.                                                           *)
(***************************************************************************)
\* the synchronous prefix: existsSync(filePath)
ExistsCall(c, k, t) ==
  /\ CanCall(c)
  /\ LET rec == [cl[c] EXCEPT !.op = "exists", !.key = k, !.gttl = t, !.n = @ + 1,
                              !.track = IF k = cl[c].key THEN @ ELSE "off"]
     IN  cl' = [cl EXCEPT ![c] =
                  IF fpath[k] = NoIno
                  THEN [rec EXCEPT !.pc = "ret", !.ok = FALSE]
                  ELSE [rec EXCEPT !.pc = "ex_read"]]
  /\ UNCHANGED <<nonCache, cfg, now, ino, fpath, tpath, lock, sw, sched>>

\* fs.readFile, JSON.parse, !_isExpired(metadata, customTTL); any error is false
ExistsRead(c) ==
  /\ cl[c].pc = "ex_read"
  /\ LET k == cl[c].key
         content == ino[fpath[k]]
     IN  cl' = [cl EXCEPT ![c] =
                  [@ EXCEPT !.pc = "ret", !.tread = now,
                            !.ok = /\ fpath[k] # NoIno
                                   /\ Parses(content)
                                   /\ ~IsExpired(MetaOf(content).ts, cl[c].gttl, now)]]
  /\ UNCHANGED <<nonCache, cfg, now, ino, fpath, tpath, lock, sw, sched>>

\* The call returns to its caller, who is free to make the next call.
Return(c) ==
  /\ cl[c].pc = "ret"
  /\ cl' = [cl EXCEPT ![c] =
              IF cl[c].op = "set" /\ cl[c].ok
              THEN [IdleClient EXCEPT !.key = cl[c].key, !.val = cl[c].val,
                                      !.ttl = cl[c].ttl, !.ts = cl[c].ts,
                                      !.track = cl[c].track, !.n = cl[c].n,
                                      !.wrote = TRUE]
              ELSE [IdleClient EXCEPT !.n = cl[c].n, !.wrote = cl[c].wrote]]
  /\ UNCHANGED <<nonCache, cfg, now, ino, fpath, tpath, lock, sw, sched>>

(***************************************************************************)
(* _cleanup(), cacheManager.js 246-314: started by the interval timer, at  *)
(* startup, or by the setImmediate of a set.                               *)
(***************************************************************************)
IdleSweep ==
  [pc |-> "idle", list |-> <<>>, infos |-> <<>>, idx |-> 0, total |-> 0, rem |-> <<>>,
   total0 |-> 0, atSize |-> 0, evicted |-> <<>>, aborted |-> FALSE]

\* The orders in which readdir may list the keys ks.
RECURSIVE Orders(_)
Orders(ks) ==
  IF ks = {} THEN {<<>>}
  ELSE UNION {{<<k>> \o r : r \in Orders(ks \ {k})} : k \in ks}

\* Array.prototype.sort((a, b) => a.timestamp - b.timestamp): stable, oldest first
RECURSIVE InsertByTs(_, _)
InsertByTs(x, sorted) ==
  IF sorted = <<>> THEN <<x>>
  ELSE IF x.ts < Head(sorted).ts THEN <<x>> \o sorted
  ELSE <<Head(sorted)>> \o InsertByTs(x, Tail(sorted))

RECURSIVE SortByTs(_)
SortByTs(infos) ==
  IF infos = <<>> THEN <<>>
  ELSE InsertByTs(infos[Len(infos)], SortByTs(SubSeq(infos, 1, Len(infos) - 1)))

\* fileInfos.filter(f => fsSync.existsSync(f.filePath)) with the paths fp
RECURSIVE FilterExisting(_, _)
FilterExisting(infos, fp) ==
  IF infos = <<>> THEN <<>>
  ELSE IF fp[Head(infos).key] # NoIno
       THEN <<Head(infos)>> \o FilterExisting(Tail(infos), fp)
       ELSE FilterExisting(Tail(infos), fp)

\* the outer catch: console.error, return zeros
SweepAbort == [IdleSweep EXCEPT !.pc = "done", !.aborted = TRUE]

\* An eviction loop that stops as soon as the total is back under the max.
EvictOrDoneAtMax(r) ==
  IF r.rem = <<>> \/ r.total <= cfg.maxCacheSize
  THEN [r EXCEPT !.pc = "done"]
  ELSE [r EXCEPT !.pc = "evict"]

\* the head of the eviction loop: break at 90% of the max, else unlink the oldest
EvictOrDone(r) ==
  IF r.rem = <<>> \/ 10 * r.total <= 9 * cfg.maxCacheSize
  THEN [r EXCEPT !.pc = "done"]
  ELSE [r EXCEPT !.pc = "evict"]

\* if (totalSize > this.maxCacheSize): filter existsSync, sort oldest first
\* (history: atSize is totalSize at this check, evicted the entries the eviction
\* loop has unlinked, total0 is totalSize at the end of the collect loop)
SizeCheck(r, fp) ==
  IF r.total > cfg.maxCacheSize
  THEN EvictOrDone([r EXCEPT !.rem = SortByTs(FilterExisting(r.infos, fp)),
                             !.atSize = r.total])
  ELSE [r EXCEPT !.pc = "done", !.atSize = r.total]

\* the expiry loop from entry i on, up to its next unlink:
\* _isExpired(metadata) or older than maxAge
RECURSIVE ExpireFrom(_, _, _)
ExpireFrom(r, i, fp) ==
  IF i > Len(r.infos) THEN SizeCheck(r, fp)
  ELSE IF IsExpired(r.infos[i].ts, 0, now) \/ (now - r.infos[i].ts) > cfg.maxAge
  THEN [r EXCEPT !.pc = "expire", !.idx = i]
  ELSE ExpireFrom(r, i + 1, fp)

\* the collect loop moves on to its next file, or to the expiry loop
CollectNext(r, fp) ==
  IF r.list = <<>>
  THEN ExpireFrom([r EXCEPT !.total0 = r.total], 1, fp)
  ELSE [r EXCEPT !.pc = "collect"]

\* fs.readdir and the .json filter
SweepStart ==
  /\ sw.pc = "idle"
  /\ \E order \in Orders({k \in Keys : fpath[k] # NoIno}) :
       sw' = CollectNext([IdleSweep EXCEPT !.list = order], fpath)
  /\ sched' = FALSE
  /\ UNCHANGED <<nonCache, cfg, now, ino, fpath, tpath, lock, cl>>

\* one file of the collect loop: fs.stat, fs.readFile, JSON.parse
SweepCollect ==
  /\ sw.pc = "collect"
  /\ LET k == Head(sw.list)
     IN  sw' = IF fpath[k] # NoIno /\ Parses(ino[fpath[k]])
               THEN CollectNext([sw EXCEPT
                                   !.list = Tail(sw.list),
                                   !.infos = Append(sw.infos,
                                                    [key |-> k, size |-> Len(ino[fpath[k]]),
                                                     ts |-> MetaOf(ino[fpath[k]]).ts]),
                                   !.total = sw.total + Len(ino[fpath[k]])],
                                fpath)
               ELSE [sw EXCEPT !.pc = "corrupt"]
  /\ UNCHANGED <<nonCache, cfg, now, ino, fpath, tpath, lock, cl, sched>>

\* catch of the collect loop: await fs.unlink(filePath); when that throws, the
\* outer catch ends the cleanup
SweepCorrupt ==
  /\ sw.pc = "corrupt"
  /\ LET k == Head(sw.list)
     IN  IF fpath[k] = NoIno
         THEN /\ sw' = SweepAbort
              /\ UNCHANGED <<ino, fpath, cl>>
         ELSE /\ fpath' = [fpath EXCEPT ![k] = NoIno]
              /\ cl' = Touch(k, cl)
              /\ ino' = Collect(ino, fpath', tpath, cl')
              /\ sw' = CollectNext([sw EXCEPT !.list = Tail(sw.list)], fpath')
  /\ UNCHANGED <<nonCache, cfg, now, tpath, lock, sched>>

\* the unlink of the expiry loop
SweepExpire ==
  /\ sw.pc = "expire"
  /\ LET f == sw.infos[sw.idx]
     IN  IF fpath[f.key] = NoIno
         THEN /\ sw' = SweepAbort
              /\ UNCHANGED <<ino, fpath, cl>>
         ELSE /\ fpath' = [fpath EXCEPT ![f.key] = NoIno]
              /\ cl' = Touch(f.key, cl)
              /\ ino' = Collect(ino, fpath', tpath, cl')
              /\ sw' = ExpireFrom([sw EXCEPT !.total = sw.total - f.size],
                                  sw.idx + 1, fpath')
  /\ UNCHANGED <<nonCache, cfg, now, tpath, lock, sched>>

\* the unlink of the eviction loop
SweepEvict ==
  /\ sw.pc = "evict"
  /\ LET f == Head(sw.rem)
     IN  IF fpath[f.key] = NoIno
         THEN /\ sw' = SweepAbort
              /\ UNCHANGED <<ino, fpath, cl>>
         ELSE /\ fpath' = [fpath EXCEPT ![f.key] = NoIno]
              /\ cl' = Touch(f.key, cl)
              /\ ino' = Collect(ino, fpath', tpath, cl')
              /\ sw' = EvictOrDone([sw EXCEPT !.rem = Tail(sw.rem),
                                              !.total = sw.total - f.size,
                                              !.evicted = Append(sw.evicted, f)])
  /\ UNCHANGED <<nonCache, cfg, now, tpath, lock, sched>>

\* return { deletedCount, deletedSize, remainingSize }
SweepEnd ==
  /\ sw.pc = "done"
  /\ sw' = IdleSweep
  /\ UNCHANGED <<nonCache, cfg, now, ino, fpath, tpath, lock, cl, sched>>

Tick ==
  /\ now < MaxClock
  /\ now' = now + 1
  /\ UNCHANGED <<nonCache, cfg, ino, fpath, tpath, lock, cl, sw, sched>>

(***************************************************************************)
(* The cache under concurrent callers: two clients and the cleanup, within *)
(* a time span in which nothing expires.                                   *)
(***************************************************************************)
(***************************************************************************)
(* EventManager (src/backend/eventManager.js) and the event routes of the  *)
(* server.  Request bodies are well formed (the 400 answers are left out). *)
(***************************************************************************)
IsEvent(f) == f.st = "event"

\* create(eventData), the event it builds; the creator token it stores
NewEvent(id, u, nm, tok) ==
  [st |-> "event", id |-> id, createdBy |-> u, createdAt |-> now, name |-> nm,
   games |-> <<>>, votes |-> NoVotes, creatorToken |-> tok]

\* const { creatorToken: _, ...safeEvent } = updatedEvent
Stripped == "stripped"
Strip(ev) == [ev EXCEPT !.creatorToken = Stripped]

\* The length of a file in abstract units.
RECURSIVE BallotsLen(_)
BallotsLen(v) ==
  IF DOMAIN v = {} THEN 0
  ELSE LET f == CHOOSE x \in DOMAIN v : TRUE
       IN  1 + Len(v[f]) + BallotsLen([g \in DOMAIN v \ {f} |-> v[g]])

DocLen(f) ==
  CASE f.st = "event" ->
         (IF f.name = "Friday" THEN 1 ELSE 2) + 2 * Len(f.games) + BallotsLen(f.votes)
    [] f.st = "corrupt" -> f.len
    [] OTHER -> 0

\* write(fd, document) at offset 0 of a file that holds cur: a shorter document
\* leaves the tail of cur behind it.
WriteOver(cur, doc) ==
  IF DocLen(doc) >= DocLen(cur) THEN doc ELSE Garbled(DocLen(cur))

ERef(i, ef, r_) ==
  \/ \E e \in EventIds : ef[e] = i
  \/ \E r \in Slots : r_[r].fd = i

FreeEIno ==
  CHOOSE i \in EInodes :
    /\ ~ERef(i, efile, rq)
    /\ \A j \in EInodes : j < i => ERef(j, efile, rq)

ECollect(n, ef, r_) ==
  [i \in EInodes |-> IF ERef(i, ef, r_) THEN n[i] ELSE Truncated]

\* get(eventId): existsSync, readFile, JSON.parse; null (NoFile) on any error
ReadEvent(id) ==
  IF efile[id] # NoIno /\ IsEvent(eino[efile[id]]) THEN eino[efile[id]] ELSE NoFile

\* An update that writes the event back as it read it.
MergeNothing(ev, u) == ev

\* { ...event, ...updates }
Merge(ev, u) ==
  [ev EXCEPT !.games = IF "games" \in u.fields THEN u.games ELSE @,
             !.votes = IF "votes" \in u.fields THEN u.votes ELSE @,
             !.name = IF "name" \in u.fields THEN u.name ELSE @]

\* A vote that stores the ranking as it came.
FilterNone(ids, among) == ids

\* rankedGameIds.filter(id => validGameIds.includes(id))
RECURSIVE FilterIn(_, _)
FilterIn(ids, among) ==
  IF ids = <<>> THEN <<>>
  ELSE IF Head(ids) \in among THEN <<Head(ids)>> \o FilterIn(Tail(ids), among)
  ELSE FilterIn(Tail(ids), among)

\* A filter that drops the first occurrence only.
RECURSIVE WithoutFirst(_, _)
WithoutFirst(ids, g) ==
  IF ids = <<>> THEN <<>>
  ELSE IF Head(ids) # g THEN <<Head(ids)>> \o WithoutFirst(Tail(ids), g)
  ELSE Tail(ids)

\* ids.filter(id => id !== gameId)
RECURSIVE Without(_, _)
Without(ids, g) ==
  IF ids = <<>> THEN <<>>
  ELSE IF Head(ids) # g THEN <<Head(ids)>> \o Without(Tail(ids), g)
  ELSE Without(Tail(ids), g)

Range(q) == {q[i] : i \in 1 .. Len(q)}

\* events.sort((a, b) => new Date(b.createdAt) - new Date(a.createdAt)): stable
RECURSIVE InsertNewest(_, _)
InsertNewest(x, sorted) ==
  IF sorted = <<>> THEN <<x>>
  ELSE IF x.createdAt > Head(sorted).createdAt THEN <<x>> \o sorted
  ELSE <<Head(sorted)>> \o InsertNewest(x, Tail(sorted))

RECURSIVE SortNewest(_)
SortNewest(evs) ==
  IF evs = <<>> THEN <<>>
  ELSE InsertNewest(evs[Len(evs)], SortNewest(SubSeq(evs, 1, Len(evs) - 1)))

\* The number of requests made so far.
RECURSIVE Made(_)
Made(rs) ==
  IF rs = {} THEN 0
  ELSE LET r == CHOOSE x \in rs : TRUE IN rq[r].n + Made(rs \ {r})

\* for (const game of event.games) scores[game.id] = {...}: the keys of scores,
\* in insertion order
RECURSIVE ScoreKeys(_)
ScoreKeys(games) ==
  IF games = <<>> THEN <<>>
  ELSE LET ks == ScoreKeys(SubSeq(games, 1, Len(games) - 1))
           g == games[Len(games)]
       IN  IF g \in Range(ks) THEN ks ELSE Append(ks, g)

\* A scoring that gives the first place N - 1 points.
RECURSIVE ScoreRankingFromZero(_, _, _, _)
ScoreRankingFromZero(sc, ranking, i, numGames) ==
  IF i >= Len(ranking) THEN sc
  ELSE LET g == ranking[i + 1]
       IN  ScoreRankingFromZero(
             IF g \in DOMAIN sc
             THEN [sc EXCEPT ![g] = [score |-> @.score + (numGames - i - 1),
                                     voteCount |-> @.voteCount + 1]]
             ELSE sc,
             ranking, i + 1, numGames)

\* for (let i = 0; i < ranking.length; i++): the inner loop from index i on
RECURSIVE ScoreRanking(_, _, _, _)
ScoreRanking(sc, ranking, i, numGames) ==
  IF i >= Len(ranking) THEN sc
  ELSE LET g == ranking[i + 1]
       IN  ScoreRanking(
             IF g \in DOMAIN sc
             THEN [sc EXCEPT ![g] = [score |-> @.score + (numGames - i),
                                     voteCount |-> @.voteCount + 1]]
             ELSE sc,
             ranking, i + 1, numGames)

\* A scoring that counts the places down from the length of the ballot, whatever
\* the number of games.
RECURSIVE ScoreVotesByBallot(_, _, _)
ScoreVotesByBallot(sc, votes, numGames) ==
  IF DOMAIN votes = {} THEN sc
  ELSE LET f == CHOOSE x \in DOMAIN votes : TRUE
       IN  ScoreVotesByBallot(ScoreRanking(sc, votes[f], 0, Len(votes[f])),
                              [g \in DOMAIN votes \ {f} |-> votes[g]], numGames)

\* for (const ranking of Object.values(event.votes))
RECURSIVE ScoreVotes(_, _, _)
ScoreVotes(sc, votes, numGames) ==
  IF DOMAIN votes = {} THEN sc
  ELSE LET f == CHOOSE x \in DOMAIN votes : TRUE
       IN  ScoreVotes(ScoreRanking(sc, votes[f], 0, numGames),
                      [g \in DOMAIN votes \ {f} |-> votes[g]], numGames)

\* A conversion to an array that leaves the items in insertion order.
KeepOrder(items) == items

\* .sort((a, b) => b.score - a.score): stable, highest first
RECURSIVE InsertByScore(_, _)
InsertByScore(x, sorted) ==
  IF sorted = <<>> THEN <<x>>
  ELSE IF x.score > Head(sorted).score THEN <<x>> \o sorted
  ELSE <<Head(sorted)>> \o InsertByScore(x, Tail(sorted))

RECURSIVE SortByScore(_)
SortByScore(items) ==
  IF items = <<>> THEN <<>>
  ELSE InsertByScore(items[Len(items)], SortByScore(SubSeq(items, 1, Len(items) - 1)))

\* calculateScores(event), eventManager.js 246-274
calculateScores(ev) ==
  LET keys == ScoreKeys(ev.games)
      sc == ScoreVotes([g \in Range(keys) |-> [score |-> 0, voteCount |-> 0]],
                       ev.votes, Len(ev.games))
  IN  SortByScore([k \in 1 .. Len(keys) |->
                     [gameId |-> keys[k], score |-> sc[keys[k]].score,
                      voteCount |-> sc[keys[k]].voteCount]])

CanRequest(r) == rq[r].pc = "idle" /\ Made(Slots) < MaxReqs

NewRq(r, kind, id) ==
  [IdleRq EXCEPT !.kind = kind, !.id = id, !.n = rq[r].n + 1]

\* res.status(status).json(body)
Respond(rec, status, body) ==
  [rec EXCEPT !.pc = "done", !.status = status, !.body = body, !.fd = NoIno]

\* res.json({ ...safeEvent, scores })
RespondScored(rec, status, body, ev) ==
  [Respond(rec, status, body) EXCEPT !.scores = calculateScores(ev)]

\* res.json({ ..., scores, voterCount })
RespondCounted(rec, status, body, ev) ==
  [RespondScored(rec, status, body, ev) EXCEPT
     !.voterCount = Cardinality(DOMAIN ev.votes)]

\* The head of a route that requires the x-creator-token header.
Guarded(rec) ==
  IF rec.token = NoToken THEN Respond(rec, 401, <<>>) ELSE [rec EXCEPT !.pc = "verify"]

\* POST /api/events: create() up to its writeFile; nanoid(8) draws the id
CreateCall(r, u, nm, id, tok) ==
  /\ CanRequest(r)
  /\ rq' = [rq EXCEPT ![r] = [NewRq(r, "create", id) EXCEPT
                                !.pc = "wr_open", !.user = u, !.name = nm,
                                !.doc = NewEvent(id, u, nm, tok)]]
  /\ UNCHANGED <<nonEvent, eino, efile>>

\* GET /api/events/:id
GetEventCall(r, id) ==
  /\ CanRequest(r)
  /\ rq' = [rq EXCEPT ![r] = [NewRq(r, "getEvent", id) EXCEPT !.pc = "pub_get"]]
  /\ UNCHANGED <<nonEvent, eino, efile>>

\* DELETE /api/events/:id
DeleteCall(r, id, tok) ==
  /\ CanRequest(r)
  /\ rq' = [rq EXCEPT ![r] = Guarded([NewRq(r, "delete", id) EXCEPT !.token = tok])]
  /\ UNCHANGED <<nonEvent, eino, efile>>

\* GET /api/events/user/:username
ListCall(r, u) ==
  /\ CanRequest(r)
  /\ rq' = [rq EXCEPT ![r] = [NewRq(r, "list", "e1") EXCEPT !.pc = "list_dir", !.user = u]]
  /\ UNCHANGED <<nonEvent, eino, efile>>

\* POST /api/events/:id/games
AddGameCall(r, id, tok, g) ==
  /\ CanRequest(r)
  /\ rq' = [rq EXCEPT ![r] =
              Guarded([NewRq(r, "addGame", id) EXCEPT !.token = tok, !.game = g])]
  /\ UNCHANGED <<nonEvent, eino, efile>>

\* DELETE /api/events/:id/games/:gameId
RemoveGameCall(r, id, tok, g) ==
  /\ CanRequest(r)
  /\ rq' = [rq EXCEPT ![r] =
              Guarded([NewRq(r, "removeGame", id) EXCEPT !.token = tok, !.game = g])]
  /\ UNCHANGED <<nonEvent, eino, efile>>

\* POST /api/events/:id/vote: whatever x-creator-token it carries is not read
VoteCall(r, id, tok, f, ranked) ==
  /\ CanRequest(r)
  /\ rq' = [rq EXCEPT ![r] = [NewRq(r, "vote", id) EXCEPT
                                !.pc = "vote_check", !.token = tok, !.fp = f,
                                !.rank = ranked]]
  /\ UNCHANGED <<nonEvent, eino, efile>>

\* PATCH /api/events/:id
RenameCall(r, id, tok, nm) ==
  /\ CanRequest(r)
  /\ rq' = [rq EXCEPT ![r] =
              Guarded([NewRq(r, "rename", id) EXCEPT !.token = tok, !.name = nm])]
  /\ UNCHANGED <<nonEvent, eino, efile>>

\* verifyToken(id, token): exact match against the stored creatorToken
TokenMatches(ev, tok) == IsEvent(ev) /\ ev.creatorToken = tok

\* A route that calls verifyToken and goes on whatever it answers.
VerifyIgnored(r) ==
  /\ rq[r].pc = "verify"
  /\ rq' = [rq EXCEPT ![r] =
              CASE rq[r].kind = "delete" -> [rq[r] EXCEPT !.pc = "unlink"]
                [] rq[r].kind = "addGame" -> [rq[r] EXCEPT !.pc = "add_get"]
                [] rq[r].kind = "removeGame" -> [rq[r] EXCEPT !.pc = "rem_get"]
                [] OTHER -> [rq[r] EXCEPT !.pc = "upd_get", !.fields = {"name"}]]
  /\ UNCHANGED <<nonEvent, eino, efile>>

\* await events.verifyToken(...); 403 when it is false, else on to the mutator
Verify(r) ==
  /\ rq[r].pc = "verify"
  /\ rq' = [rq EXCEPT ![r] =
              IF ~TokenMatches(ReadEvent(rq[r].id), rq[r].token)
              THEN Respond(rq[r], 403, <<>>)
              ELSE CASE rq[r].kind = "delete" -> [rq[r] EXCEPT !.pc = "unlink"]
                     [] rq[r].kind = "addGame" -> [rq[r] EXCEPT !.pc = "add_get"]
                     [] rq[r].kind = "removeGame" -> [rq[r] EXCEPT !.pc = "rem_get"]
                     [] OTHER -> [rq[r] EXCEPT !.pc = "upd_get", !.fields = {"name"}]]
  /\ UNCHANGED <<nonEvent, eino, efile>>

\* getPublic(id): get(id) without the creatorToken; the route answers 404 or the event
PubGet(r) ==
  /\ rq[r].pc = "pub_get"
  /\ LET ev == ReadEvent(rq[r].id)
     IN  rq' = [rq EXCEPT ![r] =
                  IF IsEvent(ev) THEN RespondCounted(rq[r], 200, <<Strip(ev)>>, ev)
                  ELSE Respond(rq[r], 404, <<>>)]
  /\ UNCHANGED <<nonEvent, eino, efile>>

\* delete(eventId): existsSync, unlink; the route answers { success: true }
Unlink(r) ==
  /\ rq[r].pc = "unlink"
  /\ efile' = [efile EXCEPT ![rq[r].id] = NoIno]
  /\ rq' = [rq EXCEPT ![r] = Respond(rq[r], 200, <<>>)]
  /\ eino' = ECollect(eino, efile', rq')
  /\ UNCHANGED nonEvent

\* An addGame that appends without looking for the game.
AddGetAlways(r) ==
  /\ rq[r].pc = "add_get"
  /\ LET ev == ReadEvent(rq[r].id)
     IN  rq' = [rq EXCEPT ![r] =
                  IF ~IsEvent(ev) THEN Respond(rq[r], 500, <<>>)
                  ELSE [rq[r] EXCEPT !.pc = "upd_get", !.fields = {"games"},
                                     !.games = Append(ev.games, rq[r].game),
                                     !.seen = ev]]
  /\ UNCHANGED <<nonEvent, eino, efile>>

\* addGame: its get; a game already there is returned as it is
AddGet(r) ==
  /\ rq[r].pc = "add_get"
  /\ LET ev == ReadEvent(rq[r].id)
     IN  rq' = [rq EXCEPT ![r] =
                  IF ~IsEvent(ev) THEN Respond(rq[r], 500, <<>>)
                  ELSE IF rq[r].game \in Range(ev.games)
                  THEN RespondScored([rq[r] EXCEPT !.seen = ev], 200, <<Strip(ev)>>, ev)
                  ELSE [rq[r] EXCEPT !.pc = "upd_get", !.fields = {"games"},
                                     !.games = Append(ev.games, rq[r].game),
                                     !.seen = ev]]
  /\ UNCHANGED <<nonEvent, eino, efile>>

\* removeGame: its get, the game filtered out of games and of every ballot
RemGet(r) ==
  /\ rq[r].pc = "rem_get"
  /\ LET ev == ReadEvent(rq[r].id)
     IN  rq' = [rq EXCEPT ![r] =
                  IF ~IsEvent(ev) THEN Respond(rq[r], 500, <<>>)
                  ELSE [rq[r] EXCEPT
                          !.pc = "upd_get", !.fields = {"games", "votes"},
                          !.seen = ev,
                          !.games = Without(ev.games, rq[r].game),
                          !.votes = [f \in DOMAIN ev.votes |->
                                       Without(ev.votes[f], rq[r].game)]]]
  /\ UNCHANGED <<nonEvent, eino, efile>>

\* the vote route's own events.get: 404 when the event is missing
VoteCheck(r) ==
  /\ rq[r].pc = "vote_check"
  /\ rq' = [rq EXCEPT ![r] =
              IF IsEvent(ReadEvent(rq[r].id)) THEN [rq[r] EXCEPT !.pc = "vote_get"]
              ELSE Respond(rq[r], 404, <<>>)]
  /\ UNCHANGED <<nonEvent, eino, efile>>

\* vote: its get, the ranking filtered to the games it read
VoteGet(r) ==
  /\ rq[r].pc = "vote_get"
  /\ LET ev == ReadEvent(rq[r].id)
     IN  rq' = [rq EXCEPT ![r] =
                  IF ~IsEvent(ev) THEN Respond(rq[r], 500, <<>>)
                  ELSE [rq[r] EXCEPT
                          !.pc = "upd_get", !.fields = {"votes"},
                          !.seen = ev,
                          !.votes = [f \in DOMAIN ev.votes \cup {rq[r].fp} |->
                                       IF f = rq[r].fp
                                       THEN FilterIn(rq[r].rank, Range(ev.games))
                                       ELSE ev.votes[f]]]]
  /\ UNCHANGED <<nonEvent, eino, efile>>

\* update(eventId, updates): its get and the merge; null makes the route throw
UpdGet(r) ==
  /\ rq[r].pc = "upd_get"
  /\ LET ev == ReadEvent(rq[r].id)
     IN  rq' = [rq EXCEPT ![r] =
                  IF ~IsEvent(ev) THEN Respond(rq[r], 500, <<>>)
                  ELSE [rq[r] EXCEPT !.pc = "wr_open", !.doc = Merge(ev, rq[r])]]
  /\ UNCHANGED <<nonEvent, eino, efile>>

\* fs.writeFile(filePath, ...), its open: O_CREAT | O_TRUNC
WrOpen(r) ==
  /\ rq[r].pc = "wr_open"
  /\ LET id == rq[r].id
         i == IF efile[id] = NoIno THEN FreeEIno ELSE efile[id]
     IN  /\ efile' = [efile EXCEPT ![id] = i]
         /\ eino' = [eino EXCEPT ![i] = Truncated]
         /\ rq' = [rq EXCEPT ![r].pc = "wr_write", ![r].fd = i]
  /\ UNCHANGED nonEvent

\* fs.writeFile(filePath, ...), its write and close; then the route's answer
WrWrite(r) ==
  /\ rq[r].pc = "wr_write"
  /\ LET doc == rq[r].doc
         n == [eino EXCEPT ![rq[r].fd] = WriteOver(eino[rq[r].fd], doc)]
     IN  /\ rq' = [rq EXCEPT ![r] =
                     CASE rq[r].kind = "create" -> Respond(rq[r], 201, <<doc>>)
                       [] rq[r].kind = "vote" -> RespondCounted(rq[r], 200, <<>>, doc)
                       [] rq[r].kind = "rename" -> Respond(rq[r], 200, <<Strip(doc)>>)
                       [] OTHER -> RespondScored(rq[r], 200, <<Strip(doc)>>, doc)]
         /\ eino' = ECollect(n, efile, rq')
  /\ UNCHANGED <<nonEvent, efile>>

\* listByUser: readdir
ListDir(r) ==
  /\ rq[r].pc = "list_dir"
  /\ \E order \in Orders({e \in EventIds : efile[e] # NoIno}) :
       rq' = [rq EXCEPT ![r] =
                IF order = <<>> THEN Respond(rq[r], 200, <<>>)
                ELSE [rq[r] EXCEPT !.pc = "list_read", !.list = order]]
  /\ UNCHANGED <<nonEvent, eino, efile>>

\* listByUser: one readFile of its loop; after the last, the sort and the answer
ListRead(r) ==
  /\ rq[r].pc = "list_read"
  /\ LET ev == ReadEvent(Head(rq[r].list))
         acc == IF IsEvent(ev) /\ ev.createdBy = rq[r].user
                THEN Append(rq[r].acc, ev) ELSE rq[r].acc
         rest == Tail(rq[r].list)
     IN  rq' = [rq EXCEPT ![r] =
                  IF rest = <<>>
                  THEN Respond([rq[r] EXCEPT !.list = <<>>, !.acc = <<>>], 200, SortNewest(acc))
                  ELSE [rq[r] EXCEPT !.list = rest, !.acc = acc]]
  /\ UNCHANGED <<nonEvent, eino, efile>>

\* The response is sent; the slot is free for the next request.
Finish(r) ==
  /\ rq[r].pc = "done"
  /\ rq' = [rq EXCEPT ![r] = [IdleRq EXCEPT !.n = rq[r].n]]
  /\ UNCHANGED <<nonEvent, eino, efile>>

(***************************************************************************)
(* The collection sync of the server (checkForNewGames, fetchFullCollection *)
(* and fetchGameDetails in src/frontend/src/components/EventModal.js).      *)
(* A collection item is its objectid.  A record of the detailed list is     *)
(* either a detail item, whose id is $.id, or a bare collection item, whose *)
(* id is $.objectid.  One user is synced by one request at a time, under a  *)
(* cache roomy enough that no cleanup is scheduled; the entry of the user   *)
(* is what cache.set wrote last and cache.get reads until it expires.       *)
(***************************************************************************)
batchSize == 10
NoId == 0

LongList == [i \in 1 .. (batchSize + 1) |-> i]
Summaries == {<<>>, <<1>>, <<1, 2>>, <<2, 3>>, <<1, 2, 2, 3>>, LongList}

\* What the catalog answers to /collection: the items, "still processing",
\* not found, or another failure.
SummaryResponses ==
  {[status |-> 200, items |-> s] : s \in Summaries}
    \cup {[status |-> c, items |-> <<>>] : c \in {202, 404, 500}}

\* What the catalog answers to /thing: it leaves out the items of `omit`, and a
\* request that names an id of `down` fails.
OmitIds == {1, 2}
DownIds == {3, batchSize + 1}
Catalogs == [omit : SUBSET OmitIds, down : SUBSET DownIds]

Detail(id) == [id |-> id, objectid |-> NoId]
Bare(id) == [id |-> NoId, objectid |-> id]

\* game.$.id || game.$.objectid
GameIdOf(game) == IF game.id # NoId THEN game.id ELSE game.objectid

NoEntry == [st |-> "none"]
NoOut ==
  [status |-> "none", hasNewGames |-> FALSE, totalGames |-> 0,
   newGamesCount |-> 0, removedGamesCount |-> 0]

IdleSy ==
  [pc |-> "idle", kind |-> "none", items |-> <<>>, gameIds |-> <<>>,
   uniqueGameIds |-> <<>>, i |-> 0, detailedGames |-> <<>>,
   updatedGames |-> <<>>, newGameIds |-> <<>>, removedGameIds |-> <<>>,
   out |-> NoOut, batches |-> <<>>, before |-> NoEntry, wrote |-> FALSE,
   asked |-> <<>>]

\* [...new Set(ids)]: the first occurrence of every id, in order.
RECURSIVE Uniq(_)
Uniq(ids) ==
  IF ids = <<>> THEN <<>>
  ELSE LET front == Uniq(SubSeq(ids, 1, Len(ids) - 1))
           last == ids[Len(ids)]
       IN  IF last \in Range(front) THEN front ELSE Append(front, last)

RECURSIVE IdsOf(_)
IdsOf(games) ==
  IF games = <<>> THEN <<>>
  ELSE <<GameIdOf(Head(games))>> \o IdsOf(Tail(games))

RECURSIVE NotIn(_, _)
NotIn(ids, among) ==
  IF ids = <<>> THEN <<>>
  ELSE IF Head(ids) \in among THEN NotIn(Tail(ids), among)
  ELSE <<Head(ids)>> \o NotIn(Tail(ids), among)

RECURSIVE GamesIn(_, _)
GamesIn(games, among) ==
  IF games = <<>> THEN <<>>
  ELSE IF GameIdOf(Head(games)) \in among
       THEN <<Head(games)>> \o GamesIn(Tail(games), among)
  ELSE GamesIn(Tail(games), among)

\* The loop over the items of a detail response: an item is kept when the
\* collection has an item of its id.
RECURSIVE Detailed(_, _)
Detailed(detailItems, collectionItems) ==
  IF detailItems = <<>> THEN <<>>
  ELSE IF Head(detailItems) \in Range(collectionItems)
       THEN <<Detail(Head(detailItems))>> \o Detailed(Tail(detailItems), collectionItems)
  ELSE Detailed(Tail(detailItems), collectionItems)

\* A catch branch that drops the batch.
FallbackNone(batch, collectionItems) == <<>>

\* The catch branch of a batch: the bare collection item of every id of the batch.
RECURSIVE Fallback(_, _)
Fallback(batch, collectionItems) ==
  IF batch = <<>> THEN <<>>
  ELSE IF Head(batch) \in Range(collectionItems)
       THEN <<Bare(Head(batch))>> \o Fallback(Tail(batch), collectionItems)
  ELSE Fallback(Tail(batch), collectionItems)

\* fetchGameDetails up to its first request.
StartFetch(s, gameIds) ==
  [s EXCEPT !.pc = "fetch", !.gameIds = gameIds, !.uniqueGameIds = Uniq(gameIds),
            !.i = 0, !.detailedGames = <<>>, !.batches = <<>>]

Thrown(s) == [s EXCEPT !.pc = "done", !.out = [NoOut EXCEPT !.status = "error"]]
NotFound(s) == [s EXCEPT !.pc = "done", !.out = [NoOut EXCEPT !.status = "404"]]

CanSync == sy.pc = "idle" /\ past.started < MaxSyncs

\* checkForNewGames up to cache.get: the request of the collection and the
\* parsing of its answer.
CheckCall(resp) ==
  /\ CanSync
  /\ LET s == [IdleSy EXCEPT !.kind = "check", !.items = resp.items, !.before = entry,
                             !.asked = <<resp.status>>]
     IN  sy' = IF resp.status \in {404, 500} \/ resp.items = <<>>
               THEN Thrown(s)
               ELSE [s EXCEPT !.pc = "lookup"]
  /\ past' = [past EXCEPT !.started = @ + 1]
  /\ UNCHANGED <<nonSync, now, entry, cat>>

\* A diff that saves the merged list whether or not anything changed.
CheckDiffAlwaysSaves ==
  /\ sy.pc = "lookup"
  /\ LET expired == entry.st = "entry" /\ (now - entry.timestamp) > cfg.defaultTTL
         existingGames == IF entry.st = "entry" /\ ~expired THEN entry.games ELSE <<>>
         existingGameIds == Uniq(IdsOf(existingGames))
         currentGameIds == Uniq(sy.items)
         newGameIds == NotIn(currentGameIds, Range(existingGameIds))
         removedGameIds == NotIn(existingGameIds, Range(currentGameIds))
         s == [sy EXCEPT !.newGameIds = newGameIds,
                         !.removedGameIds = removedGameIds,
                         !.updatedGames = GamesIn(existingGames, Range(currentGameIds))]
     IN  /\ entry' = IF expired THEN NoEntry ELSE entry
         /\ sy' = IF newGameIds # <<>> THEN StartFetch(s, newGameIds)
                  ELSE [s EXCEPT !.pc = "save"]
  /\ UNCHANGED <<nonSync, now, cat, past>>

\* cache.get of the detailed entry (an expired entry is deleted and read as
\* absent), then the diff of the ids.
CheckDiff ==
  /\ sy.pc = "lookup"
  /\ LET expired == entry.st = "entry" /\ (now - entry.timestamp) > cfg.defaultTTL
         existingGames == IF entry.st = "entry" /\ ~expired THEN entry.games ELSE <<>>
         existingGameIds == Uniq(IdsOf(existingGames))
         currentGameIds == Uniq(sy.items)
         newGameIds == NotIn(currentGameIds, Range(existingGameIds))
         removedGameIds == NotIn(existingGameIds, Range(currentGameIds))
         s == [sy EXCEPT !.newGameIds = newGameIds,
                         !.removedGameIds = removedGameIds,
                         !.updatedGames = GamesIn(existingGames, Range(currentGameIds))]
     IN  /\ entry' = IF expired THEN NoEntry ELSE entry
         /\ sy' = IF newGameIds # <<>> THEN StartFetch(s, newGameIds)
                  ELSE IF removedGameIds # <<>> THEN [s EXCEPT !.pc = "save"]
                  ELSE [s EXCEPT !.pc = "done",
                                 !.out = [NoOut EXCEPT !.status = "ok",
                                                       !.totalGames = Len(sy.items)]]
  /\ UNCHANGED <<nonSync, now, cat, past>>

\* fetchFullCollection up to fetchGameDetails; a 202 is retried once.
FullParsed(s, items) ==
  IF items = <<>> THEN NotFound(s)
  ELSE StartFetch([s EXCEPT !.items = items], items)

FullCall(resp) ==
  /\ CanSync
  /\ LET s == [IdleSy EXCEPT !.kind = "full", !.before = entry, !.asked = <<resp.status>>]
     IN  sy' = CASE resp.status = 404 -> NotFound(s)
                 [] resp.status = 500 -> Thrown(s)
                 [] resp.status = 202 -> [s EXCEPT !.pc = "retry"]
                 [] OTHER -> FullParsed(s, resp.items)
  /\ past' = [past EXCEPT !.started = @ + 1]
  /\ UNCHANGED <<nonSync, now, entry, cat>>

FullRetry(resp) ==
  /\ sy.pc = "retry"
  /\ LET s == [sy EXCEPT !.asked = Append(@, resp.status)]
     IN  sy' = CASE resp.status = 404 -> NotFound(s)
                 [] resp.status = 500 -> Thrown(s)
                 [] OTHER -> FullParsed(s, resp.items)
  /\ UNCHANGED <<nonSync, now, entry, cat, past>>

\* One turn of the batch loop of fetchGameDetails.
FetchBatch ==
  /\ sy.pc = "fetch"
  /\ LET n == Len(sy.uniqueGameIds)
         to == IF sy.i + batchSize < n THEN sy.i + batchSize ELSE n
         batch == SubSeq(sy.uniqueGameIds, sy.i + 1, to)
         got == IF Range(batch) \cap cat.down # {}
                THEN Fallback(batch, sy.items)
                ELSE Detailed(NotIn(batch, cat.omit), sy.items)
     IN  sy' = [sy EXCEPT !.detailedGames = @ \o got,
                          !.batches = Append(@, batch),
                          !.i = sy.i + batchSize,
                          !.pc = IF sy.i + batchSize < n THEN "fetch" ELSE "save"]
  /\ UNCHANGED <<nonSync, now, entry, cat, past>>

\* cache.set of the merged list, and the answer.
SaveEntry ==
  /\ sy.pc = "save"
  /\ LET games == IF sy.kind = "check" THEN sy.updatedGames \o sy.detailedGames
                  ELSE sy.detailedGames
     IN  /\ entry' = [st |-> "entry", timestamp |-> now, totalitems |-> Len(sy.items),
                      games |-> games, fetchedAt |-> now]
         /\ sy' = [sy EXCEPT
                     !.pc = "done", !.wrote = TRUE, !.updatedGames = games,
                     !.out = [status |-> IF sy.kind = "check" THEN "ok" ELSE "200",
                              hasNewGames |-> sy.kind = "check",
                              totalGames |-> Len(games),
                              newGamesCount |-> Len(sy.newGameIds),
                              removedGamesCount |-> Len(sy.removedGameIds)]]
  /\ UNCHANGED <<nonSync, now, cat, past>>

\* The request is answered.
SyncReturn ==
  /\ sy.pc = "done"
  /\ past' = IF sy.out.status \in {"ok", "200"}
             THEN [past EXCEPT !.completed = @ + 1, !.items = sy.items]
             ELSE past
  /\ sy' = IdleSy
  /\ UNCHANGED <<nonSync, now, entry, cat>>

(***************************************************************************)
(* fetchGameDetails as the requests run it, EventModal.js 462-527, with    *)
(* its awaits as steps: the detail request is in flight between DetailGet  *)
(* and DetailReply, and the timer of the rate limit runs in state "delay". *)
(* Every collection read or refresh that finds ids to fetch is in its own  *)
(* call, whatever the others are doing.  waited tells whether the timer    *)
(* has run out since the call's last request; gaps keeps that flag for     *)
(* every request after the first.                                          *)
(***************************************************************************)
IdleRun ==
  [pc |-> "idle", collectionItems |-> <<>>, uniqueGameIds |-> <<>>, i |-> 0,
   detailedGames |-> <<>>, waited |-> FALSE, gaps |-> <<>>, n |-> 0]

\* uniqueGameIds.slice(i, i + batchSize)
BatchAt(ids, i) ==
  SubSeq(ids, i + 1, IF i + batchSize < Len(ids) THEN i + batchSize ELSE Len(ids))

\* i += batchSize and the test of the for loop
NextTurn(run) ==
  [run EXCEPT !.i = @ + batchSize,
              !.pc = IF run.i + batchSize < Len(run.uniqueGameIds) THEN "fetch" ELSE "done"]

\* fetchGameDetails(gameIds, collectionItems) up to the first turn of the loop
FetchGameDetails(q, gameIds) ==
  /\ runs[q].pc = "idle"
  /\ runs[q].n < MaxSyncs
  /\ runs' = [runs EXCEPT ![q] =
                [IdleRun EXCEPT !.pc = "fetch", !.collectionItems = gameIds,
                                !.uniqueGameIds = Uniq(gameIds), !.n = runs[q].n + 1]]
  /\ UNCHANGED <<cacheVars, eventVars, sy, entry, cat, past>>

\* bggApi.get(`/thing?id=${gameIdsStr}&stats=1`): the request leaves
DetailGet(q) ==
  /\ runs[q].pc = "fetch"
  /\ runs' = [runs EXCEPT ![q] =
                [@ EXCEPT !.pc = "flight", !.waited = FALSE,
                          !.gaps = IF runs[q].i = 0 THEN @ ELSE Append(@, runs[q].waited)]]
  /\ UNCHANGED <<cacheVars, eventVars, sy, entry, cat, past>>

\* The answer arrives.  A failure goes to the catch, which pushes the bare
\* items and falls through to the next turn; a success pushes the detailed
\* items and, when a batch is left, starts the timer.
DetailReply(q) ==
  /\ runs[q].pc = "flight"
  /\ LET run == runs[q]
         batch == BatchAt(run.uniqueGameIds, run.i)
     IN  runs' = [runs EXCEPT ![q] =
                    IF Range(batch) \cap cat.down # {}
                    THEN NextTurn([run EXCEPT !.detailedGames =
                                     @ \o Fallback(batch, run.collectionItems)])
                    ELSE LET got == [run EXCEPT !.detailedGames =
                                       @ \o Detailed(NotIn(batch, cat.omit), run.collectionItems)]
                         IN  IF run.i + batchSize < Len(run.uniqueGameIds)
                             THEN [got EXCEPT !.pc = "delay"]
                             ELSE NextTurn(got)]
  /\ UNCHANGED <<cacheVars, eventVars, sy, entry, cat, past>>

\* setTimeout(resolve, BGG_RATE_LIMIT_MS) has run out
RateLimitOver(q) ==
  /\ runs[q].pc = "delay"
  /\ runs' = [runs EXCEPT ![q] = NextTurn([runs[q] EXCEPT !.waited = TRUE])]
  /\ UNCHANGED <<cacheVars, eventVars, sy, entry, cat, past>>

\* return detailedGames
DetailsReturn(q) ==
  /\ runs[q].pc = "done"
  /\ runs' = [runs EXCEPT ![q] = [IdleRun EXCEPT !.n = runs[q].n]]
  /\ UNCHANGED <<cacheVars, eventVars, sy, entry, cat, past>>

\* No sync under way, an empty entry, a catalog that answers in full.
SyncIdle ==
  /\ runs = [q \in Slots |-> IdleRun]
  /\ sy = IdleSy
  /\ entry = NoEntry
  /\ cat = [omit |-> {}, down |-> {}]
  /\ past = [started |-> 0, completed |-> 0, items |-> <<>>]

(***************************************************************************)
(* _cleanup() of the EventManager, eventManager.js 277-312: started by the *)
(* interval timer and at startup.  Time is in days here.                   *)
(***************************************************************************)
maxEventAge == 30

\* list: the files readdir returned that are still to visit; at: Date.now() at
\* the start; deletedCount; history: dir0 is the content of every event file
\* when the cleanup started, aborted tells that the outer catch ended it.
IdleES ==
  [pc |-> "idle", list |-> <<>>, at |-> 0, deletedCount |-> 0,
   dir0 |-> [e \in EventIds |-> NoFile], aborted |-> FALSE]

\* The content of the file of an event, NoFile when there is none.
FileOf(id) == IF efile[id] = NoIno THEN NoFile ELSE eino[efile[id]]

\* The orders in which readdir may list the event files.
RECURSIVE EOrders(_)
EOrders(ids) ==
  IF ids = {} THEN {<<>>}
  ELSE UNION {{<<e>> \o rest : rest \in EOrders(ids \ {e})} : e \in ids}

\* The loop moves on to its next file, or the cleanup returns deletedCount.
ENext(s) ==
  IF Len(s.list) > 1 THEN [s EXCEPT !.pc = "read", !.list = Tail(@)]
  ELSE [s EXCEPT !.pc = "done", !.list = <<>>]

\* fs.readdir, const now = Date.now()
ESweepStart ==
  /\ es.pc = "idle"
  /\ \E order \in EOrders({e \in EventIds : efile[e] # NoIno}) :
       es' = [IdleES EXCEPT !.pc = IF order = <<>> THEN "done" ELSE "read",
                            !.list = order, !.at = now,
                            !.dir0 = [e \in EventIds |-> FileOf(e)]]
  /\ UNCHANGED <<cacheVars, syncVars, eino, efile, rq>>

\* fs.readFile, JSON.parse, the age of the event
ESweepRead ==
  /\ es.pc = "read"
  /\ LET f == FileOf(Head(es.list))
     IN  es' = IF ~IsEvent(f) THEN [es EXCEPT !.pc = "catch"]
               ELSE IF es.at - f.createdAt > maxEventAge THEN [es EXCEPT !.pc = "unlink"]
               ELSE ENext(es)
  /\ UNCHANGED <<cacheVars, syncVars, eino, efile, rq>>

\* The file of an event is unlinked: an open descriptor keeps its inode.
EUnlinked(id) ==
  /\ efile' = [efile EXCEPT ![id] = NoIno]
  /\ eino' = ECollect(eino, efile', rq)

\* await fs.unlink(filePath) of an old event; ENOENT goes to the inner catch
ESweepUnlink ==
  /\ es.pc = "unlink"
  /\ LET id == Head(es.list)
     IN  IF efile[id] = NoIno
         THEN /\ es' = [es EXCEPT !.pc = "catch"]
              /\ UNCHANGED <<eino, efile>>
         ELSE /\ es' = ENext([es EXCEPT !.deletedCount = @ + 1])
              /\ EUnlinked(id)
  /\ UNCHANGED <<cacheVars, syncVars, rq>>

\* catch: await fs.unlink(filePath) of a file that could not be read or parsed;
\* when that unlink throws, the outer catch ends the cleanup and returns 0
ESweepCatch ==
  /\ es.pc = "catch"
  /\ LET id == Head(es.list)
     IN  IF efile[id] = NoIno
         THEN /\ es' = [es EXCEPT !.pc = "done", !.aborted = TRUE, !.deletedCount = 0]
              /\ UNCHANGED <<eino, efile>>
         ELSE /\ es' = ENext([es EXCEPT !.deletedCount = @ + 1])
              /\ EUnlinked(id)
  /\ UNCHANGED <<cacheVars, syncVars, rq>>

\* The event store left aside: an empty directory and no request.
EventsIdle ==
  /\ eino = [i \in EInodes |-> Truncated]
  /\ efile = [e \in EventIds |-> NoIno]
  /\ rq = [r \in Slots |-> IdleRq]
  /\ es = IdleES

\* The cache right after construction over an empty directory.
CacheEmpty(max) ==
  /\ cfg = [maxCacheSize |-> max, defaultTTL |-> DefaultTTL, maxAge |-> DefaultTTL]
  /\ now = 0
  /\ ino = [i \in Inodes |-> <<>>]
  /\ fpath = [k \in Keys |-> NoIno]
  /\ tpath = [k \in Keys |-> NoIno]
  /\ lock = [k \in Keys |-> FALSE]
  /\ cl = [c \in Clients |-> IdleClient]
  /\ sw = IdleSweep
  /\ sched = FALSE

InitCache == CacheEmpty(1) /\ EventsIdle /\ SyncIdle

SetSteps(c) ==
  \/ SetLock(c)
  \/ SetOpen(c)
  \/ SetWrite(c)
  \/ SetRename(c)
  \/ SetUnlock(c)
  \/ SetCatch1(c)
  \/ SetCatch2(c)
  \/ SetStats(c)

ClientStep(c) ==
  \/ \E k \in HotKeys, v \in ValsOf(c) : SetCall(c, k, v, 0)
  \/ SetSteps(c)
  \/ \E k \in HotKeys : GetCall(c, k, 0)
  \/ GetRead(c)
  \/ \E k \in HotKeys : DeleteOp(c, k)
  \/ Return(c)

SweepStep ==
  \/ SweepStart
  \/ SweepCollect
  \/ SweepCorrupt
  \/ SweepEvict
  \/ SweepEnd

Init == InitCache

Next ==
  \/ \E c \in Clients : ClientStep(c)
  \/ SweepStep

Spec == Init /\ [][Next]_vars

(***************************************************************************)
(* Concurrent set and get calls alone, in a roomy cache: no delete, no     *)
(* cleanup, nothing expires.                                               *)
(***************************************************************************)
InitAtomic == CacheEmpty(RoomySize) /\ EventsIdle /\ SyncIdle

NextAtomic ==
  \E c \in Clients :
    \/ \E k \in HotKeys, v \in RaceValsOf(c) : SetCall(c, k, v, 0)
    \/ SetSteps(c)
    \/ \E k \in HotKeys : GetCall(c, k, 0)
    \/ GetRead(c)
    \/ Return(c)

SpecAtomic == InitAtomic /\ [][NextAtomic]_vars

(***************************************************************************)
(* One caller and the clock: entries written with and without a ttl, read  *)
(* with and without a ttl, as time passes.                                 *)
(***************************************************************************)
InitExpiry == InitAtomic

NextExpiry ==
  \/ \E k \in HotKeys, v \in Vals, t \in TtlArgs : SetCall("c1", k, v, t)
  \/ SetLock("c1")
  \/ SetOpen("c1")
  \/ SetWrite("c1")
  \/ SetRename("c1")
  \/ SetUnlock("c1")
  \/ SetStats("c1")
  \/ \E k \in HotKeys, t \in TtlArgs : GetCall("c1", k, t)
  \/ GetRead("c1")
  \/ GetDel("c1")
  \/ Return("c1")
  \/ Tick

SpecExpiry == InitExpiry /\ [][NextExpiry]_vars

(***************************************************************************)
(* The cleanup on its own: a cache directory filled with entries of known  *)
(* sizes and ages (and files that do not parse), no caller active.         *)
(***************************************************************************)
SweepMaxSizes == 2 .. 4

\* What a key's file may hold when the cleanup starts: nothing, an entry written
\* at some time up to now, or bytes that do not parse.
SweepFiles ==
  {<<>>, <<Hole>>} \cup
  {Serialize(ts, t, v) : ts \in 0 .. MaxClock, t \in {ShortTTL, DefaultTTL}, v \in {"a", "c"}}

KeyIno(k) == CASE k = "k1" -> 1 [] k = "k2" -> 2 [] OTHER -> 3

InitSweep ==
  /\ \E m \in SweepMaxSizes :
       cfg = [maxCacheSize |-> m, defaultTTL |-> DefaultTTL, maxAge |-> DefaultTTL]
  /\ now = MaxClock
  /\ \E files \in [Keys -> SweepFiles] :
       /\ fpath = [k \in Keys |-> IF files[k] = <<>> THEN NoIno ELSE KeyIno(k)]
       /\ ino = [i \in Inodes |->
                   IF \E k \in Keys : KeyIno(k) = i
                   THEN files[CHOOSE k \in Keys : KeyIno(k) = i]
                   ELSE <<>>]
  /\ tpath = [k \in Keys |-> NoIno]
  /\ lock = [k \in Keys |-> FALSE]
  /\ cl = [c \in Clients |-> IdleClient]
  /\ sw = IdleSweep
  /\ sched = FALSE
  /\ EventsIdle
  /\ SyncIdle

NextSweep ==
  \/ SweepStart
  \/ SweepCollect
  \/ SweepCorrupt
  \/ SweepExpire
  \/ SweepEvict
  \/ SweepEnd

SpecSweep == InitSweep /\ [][NextSweep]_vars

(***************************************************************************)
(* The event store under concurrent requests, over a directory that holds  *)
(* nothing or an event of an earlier run.                                  *)
(***************************************************************************)
SeedEvents ==
  {[NewEvent("e1", "u1", "Game Night", "t1") EXCEPT !.createdAt = 0, !.games = <<"A", "B">>,
                                                     !.votes = v] :
     v \in {NoVotes, [f \in {"f1"} |-> <<"B", "A">>]}}

InitEvents ==
  /\ CacheEmpty(RoomySize)
  /\ \/ /\ efile = [e \in EventIds |-> NoIno]
        /\ eino = [i \in EInodes |-> Truncated]
     \/ \E ev \in SeedEvents :
          /\ efile = [e \in EventIds |-> IF e = "e1" THEN 1 ELSE NoIno]
          /\ eino = [i \in EInodes |-> IF i = 1 THEN ev ELSE Truncated]
  /\ rq = [r \in Slots |-> IdleRq]
  /\ es = IdleES
  /\ SyncIdle

RequestCall(r) ==
  \/ \E id \in EventIds, tok \in Secrets : CreateCall(r, "u1", "Game Night", id, tok)
  \/ \E id \in HotEvents : GetEventCall(r, id)
  \/ \E id \in HotEvents, tok \in Tokens : DeleteCall(r, id, tok)
  \/ \E u \in Users : ListCall(r, u)
  \/ \E id \in HotEvents, tok \in Tokens, g \in GameIds : AddGameCall(r, id, tok, g)
  \/ \E id \in HotEvents, tok \in Tokens, g \in GameIds : RemoveGameCall(r, id, tok, g)
  \/ \E id \in HotEvents, f \in Fingerprints, ranked \in Rankings :
       VoteCall(r, id, NoToken, f, ranked)
  \/ \E id \in HotEvents, tok \in Tokens : RenameCall(r, id, tok, "Friday")

RequestStep(r) ==
  \/ Verify(r)
  \/ PubGet(r)
  \/ Unlink(r)
  \/ AddGet(r)
  \/ RemGet(r)
  \/ VoteCheck(r)
  \/ VoteGet(r)
  \/ UpdGet(r)
  \/ WrOpen(r)
  \/ WrWrite(r)
  \/ ListDir(r)
  \/ ListRead(r)
  \/ Finish(r)

NextEvents == \E r \in Slots : RequestCall(r) \/ RequestStep(r)

SpecEvents == InitEvents /\ [][NextEvents]_vars

(***************************************************************************)
(* The mutations of one event alone: addGame, removeGame, vote and rename  *)
(* requests, concurrent, on a stored event.                                *)
(***************************************************************************)
MutationCall(r) ==
  \/ \E id \in HotEvents, tok \in Secrets, g \in GameIds : AddGameCall(r, id, tok, g)
  \/ \E id \in HotEvents, tok \in Secrets, g \in GameIds : RemoveGameCall(r, id, tok, g)
  \/ \E id \in HotEvents, f \in Fingerprints, ranked \in Rankings :
       VoteCall(r, id, NoToken, f, ranked)
  \/ \E id \in HotEvents, tok \in Secrets : RenameCall(r, id, tok, "Friday")

MutationStep(r) ==
  \/ Verify(r)
  \/ AddGet(r)
  \/ RemGet(r)
  \/ VoteCheck(r)
  \/ VoteGet(r)
  \/ UpdGet(r)
  \/ WrOpen(r)
  \/ WrWrite(r)
  \/ Finish(r)

NextMutations == \E r \in Slots : MutationCall(r) \/ MutationStep(r)

SpecMutations == InitEvents /\ [][NextMutations]_vars

(***************************************************************************)
(* Scoring: GET /api/events/:id on a stored event with any games list and  *)
(* any ballots.                                                            *)
(***************************************************************************)
ScoreIds == {"A", "B", "C"}

SeqsUpTo(S, n) == UNION {[1 .. k -> S] : k \in 0 .. n}

\* get-event only reads: one request at a time shows every answer.
ScoreSlots == {"r1"}

SecondBallots == {<<"B", "A", "C">>, <<"X", "A", "A">>}

ScoreVoteSets ==
  {NoVotes}
    \cup {[f \in {"f1"} |-> b] : b \in SeqsUpTo(ScoreIds, MaxBallot)}
    \cup {[f \in {"f1", "f2"} |-> IF f = "f1" THEN b ELSE c] :
            b \in SeqsUpTo(ScoreIds, MaxBallot), c \in SecondBallots}

InitScores ==
  /\ CacheEmpty(RoomySize)
  /\ \E games \in SeqsUpTo(ScoreIds, MaxGames), votes \in ScoreVoteSets :
       eino = [i \in EInodes |->
                 IF i = 1
                 THEN [NewEvent("e1", "u1", "Game Night", "t1") EXCEPT
                         !.createdAt = 0, !.games = games, !.votes = votes]
                 ELSE Truncated]
  /\ efile = [e \in EventIds |-> IF e = "e1" THEN 1 ELSE NoIno]
  /\ rq = [r \in Slots |-> IdleRq]
  /\ es = IdleES
  /\ SyncIdle

NextScores ==
  \E r \in ScoreSlots :
    \/ \E id \in HotEvents : GetEventCall(r, id)
    \/ PubGet(r)
    \/ Finish(r)

SpecScores == InitScores /\ [][NextScores]_vars

(***************************************************************************)
(* Properties of the cache.                                                *)
(***************************************************************************)
\* C1 (SpecAtomic): once some set(k, v) has returned true, a get(k) called while
\* no set is in flight, and during which none starts, returns one of the written
\* payloads in full, never a partial or merged one.
C1_AtomicSets ==
  \A c \in Clients :
    (cl[c].pc = "ret" /\ cl[c].op = "get" /\ cl[c].quiet /\ \E d \in Clients : cl[d].wrote)
      => \E v \in Vals : cl[c].data = Full(v)

\* C2 (SpecExpiry): a get(k) without ttl argument that follows the caller's
\* successful set(k, v, ttl) returns v when the entry's age is at most the ttl it
\* was written with, and otherwise returns absent and leaves no entry file.
C2_Expiry ==
  \A c \in Clients :
    (cl[c].pc = "ret" /\ cl[c].op = "get" /\ cl[c].gttl = 0 /\ cl[c].track # "off")
      => IF cl[c].tread - cl[c].ts <= EffTtl(cl[c].ttl)
         THEN cl[c].data = Full(cl[c].val)
         ELSE cl[c].data = Null /\ fpath[cl[c].key] = NoIno

\* The entries deleted for size are no newer than any entry that survived.
OldestEvicted ==
  \A i \in 1 .. Len(sw.evicted) :
    \A k \in Keys :
      fpath[k] # NoIno => sw.evicted[i].ts <= MetaOf(ino[fpath[k]]).ts

\* C6 (SpecSweep), as stated: a cleanup that ran alone on a cache whose entries
\* totalled more than the max leaves at most 90% of the max, and evicted oldest
\* first.
C6_SweepOverMax ==
  (sw.pc = "done" /\ ~sw.aborted /\ sw.total0 > cfg.maxCacheSize)
    => (10 * SumSizes(Keys) <= 9 * cfg.maxCacheSize /\ OldestEvicted)

\* C6 (SpecSweep), amended: a cleanup that ran alone and found the entries that
\* outlived its expiry pass to total more than the max leaves at most 90% of the
\* max, and every entry it deleted for size is no newer than any survivor.
C6_SweepOverMaxAfterExpiry ==
  (sw.pc = "done" /\ ~sw.aborted /\ sw.atSize > cfg.maxCacheSize)
    => (10 * SumSizes(Keys) <= 9 * cfg.maxCacheSize /\ OldestEvicted)

\* A cleanup evicted an entry for size and left a newer one.
C6_Witness ==
  /\ sw.pc = "done" /\ ~sw.aborted
  /\ sw.atSize > cfg.maxCacheSize
  /\ sw.evicted # <<>>
  /\ SumSizes(Keys) > 0

\* C10 (Spec), as stated: a get(k) that follows the caller's successful set(k, v)
\* returns v, whatever the other callers and the cleanup do meanwhile.
C10_ReadYourWrite ==
  \A c \in Clients :
    (cl[c].pc = "ret" /\ cl[c].op = "get" /\ cl[c].track # "off")
      => cl[c].data = Full(cl[c].val)

\* C10 (Spec), amended: a get(k) that follows the caller's successful set(k, v)
\* returns v, provided nobody else changed a file of k (entry, temp file or lock
\* marker) from the call of that set on.
C10_ReadYourWriteUndisturbed ==
  \A c \in Clients :
    (cl[c].pc = "ret" /\ cl[c].op = "get" /\ cl[c].track = "clean")
      => cl[c].data = Full(cl[c].val)

\* A get returned the caller's own write while another caller's set was in flight.
C10_Witness ==
  \E c \in Clients :
    /\ cl[c].pc = "ret" /\ cl[c].op = "get" /\ cl[c].track = "clean"
    /\ cl[c].data = Full(cl[c].val)
    /\ \E d \in Clients \ {c} : InSet(d)

(***************************************************************************)
(* Properties of the event store.                                          *)
(***************************************************************************)
StoredEvents == {eino[efile[e]] : e \in {x \in EventIds : efile[x] # NoIno}}

\* C3 (SpecMutations): in every stored event, every game id of every ballot of votes
\* is the id of a game in games.
C3_BallotsReferenceGames ==
  \A ev \in StoredEvents :
    IsEvent(ev) => \A f \in DOMAIN ev.votes : Range(ev.votes[f]) \subseteq Range(ev.games)

GuardedKinds == {"delete", "addGame", "removeGame", "rename"}

\* The request of slot r presents no creator token, or is at its verifyToken with
\* a token that differs from the one stored for its event.
Unauthorized(r) ==
  \/ rq'[r].token = NoToken
  \/ rq[r].pc = "verify" /\ ~TokenMatches(ReadEvent(rq[r].id), rq[r].token)

\* C4 (SpecEvents): a step of a delete, addGame, removeGame or rename request that
\* has not passed verifyToken changes no event file; when the request presents no
\* token or a token other than the stored one, that step answers 401 or 403; a
\* request gets past verifyToken only with the stored token; and no vote request
\* is answered 401 or 403.
C4_TokenGate ==
  [][\A r \in Slots :
       /\ (rq'[r] # rq[r] /\ rq'[r].kind \in GuardedKinds /\ rq[r].pc \in {"idle", "verify"})
            => /\ eino' = eino /\ efile' = efile
               /\ Unauthorized(r) => (rq'[r].pc = "done" /\ rq'[r].status \in {401, 403})
               /\ rq'[r].pc \notin {"done", "verify"}
                    => TokenMatches(ReadEvent(rq[r].id), rq[r].token)
       /\ (rq'[r].kind = "vote" /\ rq'[r].pc = "done") => rq'[r].status \notin {401, 403}]_vars

\* A request with a wrong token was refused while its event is stored, and a vote
\* without token was accepted.
C4_Witness ==
  \E r, v \in Slots :
    /\ rq[r].pc = "done" /\ rq[r].kind \in GuardedKinds
    /\ rq[r].token # NoToken /\ rq[r].status = 403
    /\ IsEvent(ReadEvent(rq[r].id))
    /\ ReadEvent(rq[r].id).creatorToken # rq[r].token
    /\ rq[v].pc = "done" /\ rq[v].kind = "vote" /\ rq[v].token = NoToken
    /\ rq[v].status = 200

Mentions(ev, g) ==
  {p \in (DOMAIN ev.votes) \X (0 .. MaxBallot) :
     p[2] < Len(ev.votes[p[1]]) /\ ev.votes[p[1]][p[2] + 1] = g}

\* The sum of N - i over a set of positions <<f, i>>.
RECURSIVE PointsOf(_, _)
PointsOf(ps, N) ==
  IF ps = {} THEN 0
  ELSE LET p == CHOOSE x \in ps : TRUE IN (N - p[2]) + PointsOf(ps \ {p}, N)

ScoreOf(items, g) == (CHOOSE k \in Range(items) : k.gameId = g).score

ExampleEvent(ev) ==
  /\ ev.games = <<"A", "B", "C">>
  /\ ev.votes = [f \in {"f1", "f2"} |->
                   IF f = "f1" THEN <<"A", "B", "C">> ELSE <<"B", "A", "C">>]

\* C7 (SpecScores): in the answer to a get-event request, every game of the event
\* has one score, equal to the sum of N - i over every ballot and every position i
\* (from 0) at which the game stands in it, N being the number of games; games
\* [A,B,C] with ballots [A,B,C] and [B,A,C] score A=5, B=5, C=2.
C7_BordaScores ==
  \A r \in Slots :
    (rq[r].pc = "done" /\ rq[r].kind = "getEvent" /\ rq[r].status = 200)
      => LET ev == rq[r].body[1]
             items == rq[r].scores
         IN  /\ {k.gameId : k \in Range(items)} = Range(ev.games)
             /\ \A k \in Range(items) :
                  k.score = PointsOf(Mentions(ev, k.gameId), Len(ev.games))
             /\ ExampleEvent(ev)
                  => /\ ScoreOf(items, "A") = 5
                     /\ ScoreOf(items, "B") = 5
                     /\ ScoreOf(items, "C") = 2

\* The example event has been scored.
C7_Witness ==
  \E r \in Slots :
    /\ rq[r].pc = "done" /\ rq[r].kind = "getEvent" /\ rq[r].status = 200
    /\ ExampleEvent(rq[r].body[1])
    /\ Len(rq[r].scores) = 3

(***************************************************************************)
(* The collection sync on its own: one user, one request at a time, any    *)
(* catalog of Catalogs, time passing between the steps.                    *)
(***************************************************************************)
InitSync ==
  /\ CacheEmpty(RoomySize)
  /\ EventsIdle
  /\ runs = [q \in Slots |-> IdleRun]
  /\ sy = IdleSy
  /\ entry = NoEntry
  /\ cat \in Catalogs
  /\ past = [started |-> 0, completed |-> 0, items |-> <<>>]

NextSync ==
  \/ \E resp \in SummaryResponses : CheckCall(resp)
  \/ CheckDiff
  \/ \E resp \in SummaryResponses : FullCall(resp)
  \/ \E resp \in SummaryResponses : FullRetry(resp)
  \/ FetchBatch
  \/ SaveEntry
  \/ SyncReturn
  \/ Tick

SpecSync == InitSync /\ [][NextSync]_vars

RECURSIVE CountOf(_, _)
CountOf(ids, id) ==
  IF ids = <<>> THEN 0
  ELSE (IF Head(ids) = id THEN 1 ELSE 0) + CountOf(Tail(ids), id)

\* C8 (SpecSync): once a sync has completed, a checkForNewGames that gets the same
\* summary list (and the same detail responses: the catalog does not change)
\* answers hasNewGames = false, writes nothing and leaves the entry as it was.
C8_SyncIdempotent ==
  (sy.pc = "done" /\ sy.kind = "check" /\ past.completed >= 1 /\ sy.items = past.items)
    => /\ sy.out.status = "ok"
       /\ ~sy.out.hasNewGames
       /\ ~sy.wrote
       /\ entry = sy.before

\* C9 (SpecSync): every distinct id passed to fetchGameDetails stands in exactly one
\* of the batches requested, once, and the list written to the cache holds
\* exactly one record of every id passed and no id twice.
C9_OneFetchOneRecord ==
  /\ (sy.pc \in {"save", "done"} /\ sy.batches # <<>>)
       => \A id \in Range(sy.gameIds) :
            /\ Cardinality({b \in DOMAIN sy.batches : id \in Range(sy.batches[b])}) = 1
            /\ \A b \in DOMAIN sy.batches : CountOf(sy.batches[b], id) <= 1
  /\ (sy.pc = "done" /\ sy.wrote)
       => /\ \A id \in Range(sy.gameIds) : CountOf(IdsOf(entry.games), id) = 1
          /\ \A id \in Range(IdsOf(entry.games)) : CountOf(IdsOf(entry.games), id) = 1

(***************************************************************************)
(* One mutation at a time: addGame, removeGame, vote and rename requests   *)
(* that run undisturbed, one after the other, on a stored event.           *)
(***************************************************************************)
SoloSlots == {"r1"}
SoloGames == {<<>>, <<"A">>, <<"A", "B">>, <<"B", "A">>}
SoloBallots == {<<>>, <<"A">>, <<"B", "A", "B">>}
SoloVotes ==
  {NoVotes}
    \cup {[f \in {"f1"} |-> b] : b \in SoloBallots}
    \cup {[f \in {"f1", "f2"} |-> IF f = "f1" THEN b ELSE <<"A", "B">>] : b \in SoloBallots}
SoloRankings == Rankings \cup {<<>>, <<"B", "A">>}

InitSolo ==
  /\ CacheEmpty(RoomySize)
  /\ \E games \in SoloGames, votes \in SoloVotes :
       eino = [i \in EInodes |->
                 IF i = 1
                 THEN [NewEvent("e1", "u1", "Game Night", "t1") EXCEPT
                         !.createdAt = 0, !.games = games, !.votes = votes]
                 ELSE Truncated]
  /\ efile = [e \in EventIds |-> IF e = "e1" THEN 1 ELSE NoIno]
  /\ rq = [r \in Slots |-> IdleRq]
  /\ es = IdleES
  /\ SyncIdle

SoloCall(r) ==
  \/ \E id \in HotEvents, g \in GameIds : AddGameCall(r, id, "t1", g)
  \/ \E id \in HotEvents, g \in GameIds : RemoveGameCall(r, id, "t1", g)
  \/ \E id \in HotEvents, f \in Fingerprints, ranked \in SoloRankings :
       VoteCall(r, id, NoToken, f, ranked)
  \/ \E id \in HotEvents : RenameCall(r, id, "t1", "Friday")

NextSolo == \E r \in SoloSlots : SoloCall(r) \/ MutationStep(r)

SpecSolo == InitSolo /\ [][NextSolo]_vars

\* The positions of `orig` whose id passes, and what a list is when it holds
\* exactly the ids at those positions, in their order.
KeptAt(orig, pass) == {i \in DOMAIN orig : orig[i] \in pass}
IsKept(res, orig, pass) ==
  /\ Len(res) = Cardinality(KeptAt(orig, pass))
  /\ \A i \in KeptAt(orig, pass) :
       res[Cardinality({j \in KeptAt(orig, pass) : j <= i})] = orig[i]

AllIds == GameIds \cup {"X", "C"}

\* The fields of an event that neither games nor ballots hold.
SameHead(a, b) ==
  /\ a.id = b.id /\ a.name = b.name /\ a.createdBy = b.createdBy
  /\ a.createdAt = b.createdAt /\ a.creatorToken = b.creatorToken

\* C11 (SpecSolo): when removeGame(id, g) has answered, the stored event has the
\* games and every ballot of the event it read without g, the other ids in
\* their order, a ballot for every fingerprint that had one (an emptied ballot
\* stays, empty), and nothing else changed; the route answers that event.
C11_RemoveGamePrunes ==
  \A r \in Slots :
    (rq[r].pc = "done" /\ rq[r].kind = "removeGame" /\ rq[r].status = 200)
      => LET before == rq[r].seen
             after == ReadEvent(rq[r].id)
             rest == AllIds \ {rq[r].game}
         IN  /\ IsEvent(before) /\ IsEvent(after)
             /\ IsKept(after.games, before.games, rest)
             /\ DOMAIN after.votes = DOMAIN before.votes
             /\ \A f \in DOMAIN before.votes :
                  IsKept(after.votes[f], before.votes[f], rest)
             /\ SameHead(after, before)
             /\ rq[r].body = <<Strip(after)>>

\* removeGame has pruned a ballot that names the game twice around another id,
\* and emptied another ballot.
C11_Witness ==
  \E r \in Slots :
    /\ rq[r].pc = "done" /\ rq[r].kind = "removeGame" /\ rq[r].status = 200
    /\ rq[r].game = "B"
    /\ rq[r].seen.games = <<"A", "B">>
    /\ DOMAIN rq[r].seen.votes = {"f1", "f2"}
    /\ rq[r].seen.votes["f1"] = <<"B", "A", "B">>
    /\ ReadEvent(rq[r].id).votes["f1"] = <<"A">>
    /\ \E f \in DOMAIN rq[r].seen.votes :
         rq[r].seen.votes[f] # <<>> /\ ReadEvent(rq[r].id).votes[f] = <<>>

\* C12 (SpecSolo): when vote(id, fingerprint, rankedIds) has answered, the stored
\* ballot of the fingerprint is exactly the ids of rankedIds that are games of
\* the event it read, in their order; it replaces the ballot the fingerprint had;
\* the ballots of the other fingerprints, the games and the rest are unchanged.
C12_VoteStoresFiltered ==
  \A r \in Slots :
    (rq[r].pc = "done" /\ rq[r].kind = "vote" /\ rq[r].status = 200)
      => LET before == rq[r].seen
             after == ReadEvent(rq[r].id)
         IN  /\ IsEvent(before) /\ IsEvent(after)
             /\ DOMAIN after.votes = DOMAIN before.votes \cup {rq[r].fp}
             /\ IsKept(after.votes[rq[r].fp], rq[r].rank, Range(before.games))
             /\ \A f \in DOMAIN before.votes \ {rq[r].fp} :
                  after.votes[f] = before.votes[f]
             /\ after.games = before.games
             /\ SameHead(after, before)
             /\ rq[r].voterCount = Cardinality(DOMAIN after.votes)

\* A ranking with an unknown id and a repeated one has replaced the earlier
\* ballot of its fingerprint, next to the ballot of another fingerprint.
C12_Witness ==
  \E r \in Slots :
    /\ rq[r].pc = "done" /\ rq[r].kind = "vote" /\ rq[r].status = 200
    /\ rq[r].rank = <<"X", "B", "B">> /\ rq[r].fp = "f1"
    /\ DOMAIN rq[r].seen.votes = {"f1", "f2"}
    /\ rq[r].seen.votes["f1"] = <<"A">>
    /\ ReadEvent(rq[r].id).votes["f1"] = <<"B", "B">>
    /\ ReadEvent(rq[r].id).votes["f2"] = <<"A", "B">>

\* C20 (SpecSolo): when addGame(id, game) has answered, then if the event it read
\* already had a game of that id the stored event is that event, unchanged, and
\* is what the route answers; otherwise the stored event is the event read with
\* the game appended once at the end of games and nothing else changed.
C20_AddGameOnce ==
  \A r \in Slots :
    (rq[r].pc = "done" /\ rq[r].kind = "addGame" /\ rq[r].status = 200)
      => LET before == rq[r].seen
             after == ReadEvent(rq[r].id)
         IN  /\ IsEvent(before) /\ IsEvent(after)
             /\ rq[r].body = <<Strip(after)>>
             /\ IF rq[r].game \in Range(before.games)
                THEN after = before
                ELSE /\ after.games = before.games \o <<rq[r].game>>
                     /\ after.votes = before.votes
                     /\ SameHead(after, before)

\* A game has been appended behind another one, in an event that has ballots.
C20_Witness ==
  \E r \in Slots :
    /\ rq[r].pc = "done" /\ rq[r].kind = "addGame" /\ rq[r].status = 200
    /\ rq[r].game = "B"
    /\ rq[r].seen.games = <<"A">>
    /\ rq[r].seen.votes # NoVotes
    /\ ReadEvent(rq[r].id).games = <<"A", "B">>

(***************************************************************************)
(* The cleanup of the events directory: files of every kind and age when   *)
(* it starts, votes on e1 and a delete of e2 arriving while it runs.       *)
(***************************************************************************)
CreatedAts == {0, 1, 2}
SweepTimes == {maxEventAge, maxEventAge + 1, maxEventAge + 2}

\* What the file of an event may hold when the cleanup starts: nothing (no
\* file), an empty file, text that does not parse, or an event.
EventFiles(id) ==
  {NoFile, Truncated, Garbled(1)}
    \cup {[NewEvent(id, "u1", "Game Night", "t1") EXCEPT
             !.createdAt = c, !.games = <<"A">>] : c \in CreatedAts}

EIno(id) == IF id = "e1" THEN 1 ELSE 2

InitEventSweep ==
  /\ cfg = [maxCacheSize |-> RoomySize, defaultTTL |-> DefaultTTL, maxAge |-> DefaultTTL]
  /\ now \in SweepTimes
  /\ ino = [i \in Inodes |-> <<>>]
  /\ fpath = [k \in Keys |-> NoIno]
  /\ tpath = [k \in Keys |-> NoIno]
  /\ lock = [k \in Keys |-> FALSE]
  /\ cl = [c \in Clients |-> IdleClient]
  /\ sw = IdleSweep
  /\ sched = FALSE
  /\ \E files \in [EventIds -> UNION {EventFiles(e) : e \in EventIds}] :
       /\ \A e \in EventIds : files[e] \in EventFiles(e)
       /\ efile = [e \in EventIds |-> IF files[e] = NoFile THEN NoIno ELSE EIno(e)]
       /\ eino = [i \in EInodes |->
                    IF \E e \in EventIds : EIno(e) = i /\ files[e] # NoFile
                    THEN files[CHOOSE e \in EventIds : EIno(e) = i]
                    ELSE Truncated]
  /\ rq = [r \in Slots |-> IdleRq]
  /\ es = IdleES
  /\ SyncIdle

ESweepStep == ESweepStart \/ ESweepRead \/ ESweepUnlink \/ ESweepCatch

NextEventSweep ==
  \/ ESweepStep
  \/ \E r \in Slots :
       \/ \E f \in {"f1"} : VoteCall(r, "e1", NoToken, f, <<"A">>)
       \/ DeleteCall(r, "e2", "t1")
       \/ VoteCheck(r) \/ VoteGet(r) \/ UpdGet(r) \/ WrOpen(r) \/ WrWrite(r)
       \/ Verify(r) \/ Unlink(r)

SpecEventSweep == InitEventSweep /\ [][NextEventSweep]_vars

\* What the cleanup found in the file of an event when it started.
WasOld(f) == IsEvent(f) /\ es.at - f.createdAt > maxEventAge
WasYoung(f) == IsEvent(f) /\ es.at - f.createdAt <= maxEventAge
WasCorrupt(f) == f # NoFile /\ ~IsEvent(f)

\* C13 (SpecEventSweep): when the cleanup of the events directory has completed,
\* every file that held an event older than 30 days or did not parse when the
\* cleanup started is gone, and every event that was at most 30 days old is in
\* place (e2 unless its creator deleted it), unchanged when no request ran.
C13_EventSweep ==
  es.pc = "done"
    => \A e \in EventIds :
         /\ (WasOld(es.dir0[e]) \/ WasCorrupt(es.dir0[e])) => efile[e] = NoIno
         /\ (WasYoung(es.dir0[e]) /\ e = "e1") => efile[e] # NoIno
         /\ (WasYoung(es.dir0[e]) /\ Made(Slots) = 0) => FileOf(e) = es.dir0[e]

\* C14 (SpecSweep): when a cleanup that ran alone has completed, no entry is left
\* whose age exceeds the ttl recorded in its own metadata or exceeds the max age.
C14_SweepExpiry ==
  (sw.pc = "done" /\ ~sw.aborted)
    => \A k \in Keys :
         (fpath[k] # NoIno /\ Parses(ino[fpath[k]]))
           => /\ now - MetaOf(ino[fpath[k]]).ts <= MetaOf(ino[fpath[k]]).ttl
              /\ now - MetaOf(ino[fpath[k]]).ts <= cfg.maxAge

\* C15 (SpecAtomic): a get(k) called while the lock marker of k exists returns
\* absent in the step of the call, whatever the entry file holds, and changes no
\* entry file, temp file or lock marker.
C15_GetUnderLock ==
  [][\A c \in Clients :
       (cl[c].pc = "idle" /\ cl'[c].pc # "idle" /\ cl'[c].op = "get" /\ lock[cl'[c].key])
         => /\ cl'[c].pc = "ret"
            /\ cl'[c].data = Null
            /\ UNCHANGED <<ino, fpath, tpath, lock>>]_vars

\* A get returned absent under a lock marker although the entry file held a
\* complete entry.
C15_Witness ==
  \E c \in Clients :
    /\ cl[c].pc = "ret" /\ cl[c].op = "get" /\ cl[c].locked /\ cl[c].data = Null
    /\ lock[cl[c].key]
    /\ fpath[cl[c].key] # NoIno /\ Parses(ino[fpath[cl[c].key]])

\* Another client's set of key k has opened the temp file of k and not yet
\* renamed it.
OthersTemp(c, k) ==
  \E d \in Clients \ {c} :
    cl[d].key = k /\ cl[d].pc \in {"set_write", "set_rename"}

CorruptCacheFiles == {<<>>, <<Hole>>, Serialize(0, DefaultTTL, "a")}
\* (time starts at 0 here: the old event was created 31 days before)
CorruptEventFiles(id) ==
  {NoFile, Truncated, Garbled(1)}
    \cup {[NewEvent(id, "u1", "Game Night", "t1") EXCEPT !.createdAt = c, !.games = <<"A">>] :
            c \in {0, 0 - (maxEventAge + 1)}}

InitCorrupt ==
  /\ cfg = [maxCacheSize |-> RoomySize, defaultTTL |-> DefaultTTL, maxAge |-> DefaultTTL]
  /\ now = 0
  /\ tpath = [k \in Keys |-> NoIno]
  /\ lock = [k \in Keys |-> FALSE]
  /\ cl = [c \in Clients |-> IdleClient]
  /\ sw = IdleSweep
  /\ sched = FALSE
  /\ rq = [r \in Slots |-> IdleRq]
  /\ es = IdleES
  /\ SyncIdle
  /\ \E files \in [Keys -> CorruptCacheFiles],
        efiles \in [EventIds -> UNION {CorruptEventFiles(e) : e \in EventIds}] :
       /\ \A e \in EventIds : efiles[e] \in CorruptEventFiles(e)
       /\ (\A k \in Keys : files[k] = <<>>) \/ (\A e \in EventIds : efiles[e] = NoFile)
       /\ fpath = [k \in Keys |-> IF files[k] = <<>> THEN NoIno ELSE KeyIno(k)]
       /\ ino = [i \in Inodes |->
                   IF \E k \in Keys : KeyIno(k) = i
                   THEN files[CHOOSE k \in Keys : KeyIno(k) = i]
                   ELSE <<>>]
       /\ efile = [e \in EventIds |-> IF efiles[e] = NoFile THEN NoIno ELSE EIno(e)]
       /\ eino = [i \in EInodes |->
                    IF \E e \in EventIds : EIno(e) = i /\ efiles[e] # NoFile
                    THEN efiles[CHOOSE e \in EventIds : EIno(e) = i]
                    ELSE Truncated]

NextCorrupt ==
  \/ \E k \in Keys : GetCall("c1", k, 0)
  \/ GetRead("c1")
  \/ \E k \in Keys : DeleteOp("c1", k)
  \/ Return("c1")
  \/ SweepStart
  \/ SweepCollect
  \/ SweepCorrupt
  \/ SweepEnd
  \/ \E id \in EventIds : GetEventCall("r1", id)
  \/ \E id \in EventIds : DeleteCall("r1", id, "t1")
  \/ PubGet("r1")
  \/ Verify("r1")
  \/ Unlink("r1")
  \/ Finish("r1")
  \/ ESweepStep

SpecCorrupt == InitCorrupt /\ [][NextCorrupt]_vars

\* C17 (SpecCorrupt): a get of the cache or of the events that reads a file
\* that does not parse returns absent (null, 404 with no event), and when a
\* cleanup of either directory completes, no file that does not parse is left
\* in that directory.
C17_CorruptIsMiss ==
  [][/\ \A c \in Clients :
          (/\ cl[c].pc = "get_read" /\ cl'[c].pc # "get_read"
           /\ fpath[cl[c].key] # NoIno /\ ~Parses(ino[fpath[cl[c].key]]))
            => (cl'[c].pc = "ret" /\ cl'[c].data = Null)
     /\ \A r \in Slots :
          (/\ rq[r].pc = "pub_get" /\ rq'[r].pc # "pub_get"
           /\ efile[rq[r].id] # NoIno /\ ~IsEvent(eino[efile[rq[r].id]]))
            => (rq'[r].status = 404 /\ rq'[r].body = <<>>)
     /\ (sw.pc # "done" /\ sw'.pc = "done")
            => \A k \in Keys : fpath'[k] # NoIno => Parses(ino'[fpath'[k]])
     /\ (es.pc # "done" /\ es'.pc = "done")
            => \A e \in EventIds : efile'[e] # NoIno => IsEvent(eino'[efile'[e]])]_vars

\* C18 (SpecSync): when checkForNewGames finds the ids of the fresh summary to be
\* the ids of the cached entry, it answers hasNewGames = false with no game added
\* or removed, has requested no detail, has written nothing, and the entry is as
\* it was.
C18_NoChangeNoWrite ==
  [][(/\ sy.pc = "lookup" /\ sy'.pc # "lookup"
      /\ entry.st = "entry" /\ (now - entry.timestamp) <= cfg.defaultTTL
      /\ Range(IdsOf(entry.games)) = Range(sy.items))
       => /\ sy'.pc = "done"
          /\ sy'.out.status = "ok" /\ ~sy'.out.hasNewGames
          /\ sy'.out.newGamesCount = 0 /\ sy'.out.removedGamesCount = 0
          /\ sy'.batches = <<>> /\ ~sy'.wrote
          /\ entry' = entry]_vars

\* A check has found nothing new over an entry of two games and answered.
C18_Witness ==
  /\ sy.pc = "done" /\ sy.kind = "check"
  /\ sy.out.status = "ok" /\ ~sy.out.hasNewGames
  /\ entry.st = "entry" /\ entry = sy.before
  /\ Len(entry.games) >= 2
  /\ Range(IdsOf(entry.games)) = Range(sy.items)
  /\ sy.batches = <<>> /\ ~sy.wrote

\* The batches of a fetch, one after the other.
RECURSIVE Flat(_)
Flat(bs) == IF bs = <<>> THEN <<>> ELSE Head(bs) \o Flat(Tail(bs))

\* The detail request of batch b fails.
BatchFails(b) == Range(b) \cap cat.down # {}

\* C19 (SpecSync): when fetchGameDetails has returned, its batches cover every id
\* it was given, failed batches included, and the list it returned holds the bare
\* summary record of every id of every batch whose request failed, once; a sync
\* that requested details ends by saving the list and answering, not by raising.
C19_FailedBatchFallsBack ==
  /\ (sy.pc \in {"save", "done"} /\ sy.batches # <<>>)
       => /\ Flat(sy.batches) = sy.uniqueGameIds
          /\ \A i \in 1 .. Len(sy.batches) :
               BatchFails(sy.batches[i])
                 => \A j \in 1 .. Len(sy.batches[i]) :
                      Cardinality({n \in 1 .. Len(sy.detailedGames) :
                                     sy.detailedGames[n] = Bare(sy.batches[i][j])}) = 1
  /\ (sy.pc = "done" /\ sy.batches # <<>>)
       => (sy.wrote /\ sy.out.status \in {"ok", "200"})

\* A sync has answered after its first batch, of batchSize ids, failed and its
\* second batch was fetched in detail.
C19_Witness ==
  /\ sy.pc = "done" /\ sy.wrote
  /\ Len(sy.batches) = 2
  /\ Len(sy.batches[1]) = batchSize
  /\ BatchFails(sy.batches[1]) /\ ~BatchFails(sy.batches[2])
  /\ \E n \in 1 .. Len(sy.detailedGames) : sy.detailedGames[n].id # NoId
  /\ entry.games = sy.detailedGames

(***************************************************************************)
(* Properties of the scores in the answers of the vote and get routes.     *)
(***************************************************************************)
\* The ballots of ev that mention game g.
BallotsWith(ev, g) == {f \in DOMAIN ev.votes : g \in Range(ev.votes[f])}

\* C21 (SpecSolo): in the answer of a vote, the voteCount of every game is the
\* number of ballots of the stored event that mention the game.
C21_VoteCountIsBallots ==
  \A r \in Slots :
    (rq[r].pc = "done" /\ rq[r].kind = "vote" /\ rq[r].status = 200)
      => \A n \in 1 .. Len(rq[r].scores) :
           rq[r].scores[n].voteCount
             = Cardinality(BallotsWith(ReadEvent(rq[r].id), rq[r].scores[n].gameId))

\* C22 (SpecScores): the scores in the answer to a get-event request hold one
\* item for every game id of the event and no other, a game that no ballot
\* mentions has score 0 and voteCount 0, and no item has a higher score than
\* the item before it.
C22_ScoresCoverGames ==
  \A r \in Slots :
    (rq[r].pc = "done" /\ rq[r].kind = "getEvent" /\ rq[r].status = 200)
      => LET ev == rq[r].body[1]
             items == rq[r].scores
         IN  /\ {items[n].gameId : n \in 1 .. Len(items)} = Range(ev.games)
             /\ Len(items) = Cardinality(Range(ev.games))
             /\ \A n \in 1 .. Len(items) :
                  BallotsWith(ev, items[n].gameId) = {}
                    => (items[n].score = 0 /\ items[n].voteCount = 0)
             /\ \A n \in 1 .. (Len(items) - 1) : items[n].score >= items[n + 1].score

\* An event of three games has been scored: the game listed last came out
\* first, and a game that no ballot mentions is in the scores.
C22_Witness ==
  \E r \in Slots :
    /\ rq[r].pc = "done" /\ rq[r].kind = "getEvent" /\ rq[r].status = 200
    /\ Len(rq[r].scores) = 3
    /\ Len(rq[r].body[1].games) = 3
    /\ rq[r].scores[1].gameId = rq[r].body[1].games[3]
    /\ rq[r].scores[1].score > rq[r].scores[2].score
    /\ \E n \in 1 .. 3 : BallotsWith(rq[r].body[1], rq[r].scores[n].gameId) = {}

(***************************************************************************)
(* The calls on one key as time passes: c1 writes (with and without ttl),  *)
(* asks exists and deletes; c2 asks exists and deletes meanwhile.          *)
(***************************************************************************)
NextKeys ==
  \/ \E k \in HotKeys, t \in TtlArgs : SetCall("c1", k, "c", t)
  \/ SetLock("c1")
  \/ SetOpen("c1")
  \/ SetWrite("c1")
  \/ SetRename("c1")
  \/ SetUnlock("c1")
  \/ SetStats("c1")
  \/ \E c \in Clients :
       \/ \E k \in HotKeys, t \in TtlArgs : ExistsCall(c, k, t)
       \/ ExistsRead(c)
       \/ \E k \in HotKeys : DeleteOp(c, k)
       \/ Return(c)
  \/ Tick

SpecKeys == InitAtomic /\ [][NextKeys]_vars

\* C23 (SpecKeys): delete(k) leaves no entry for k, returns true exactly when
\* there was one, and touches no other entry, no temp file and no lock marker;
\* on a key without entry it changes no file at all, so a delete that follows a
\* delete leaves the cache as the first one left it.
C23_DeleteIdempotent ==
  [][\A c \in Clients :
       (cl[c].pc = "idle" /\ cl'[c].pc # "idle" /\ cl'[c].op = "delete")
         => LET k == cl'[c].key
            IN  /\ cl'[c].pc = "ret"
                /\ cl'[c].ok = (fpath[k] # NoIno)
                /\ fpath' = [fpath EXCEPT ![k] = NoIno]
                /\ tpath' = tpath /\ lock' = lock
                /\ fpath[k] = NoIno => (ino' = ino /\ fpath' = fpath)]_vars

\* A delete has removed the entry of a key and returned true, and a second
\* delete of the key has returned false.
C23_Witness ==
  \E c, d \in Clients :
    /\ cl[d].pc = "ret" /\ cl[d].op = "delete" /\ cl[d].ok
    /\ cl[c].pc = "ret" /\ cl[c].op = "delete" /\ ~cl[c].ok
    /\ cl[c].key = cl[d].key
    /\ fpath[cl[c].key] = NoIno

\* The ttl that decides whether an entry is expired: the ttl argument of the
\* call when there is one, else the ttl the entry was written with.
OwnTtl(content, customTTL) == IF customTTL # 0 THEN customTTL ELSE MetaOf(content).ttl

\* The entry of key k is stored and not expired for a call with ttl argument t.
Live(k, t) ==
  /\ fpath[k] # NoIno
  /\ Parses(ino[fpath[k]])
  /\ now - MetaOf(ino[fpath[k]]).ts <= OwnTtl(ino[fpath[k]], t)

\* C24 (SpecKeys): exists(k, ttl) changes no entry file, temp file or lock
\* marker at any of its steps, and what it returns is whether an entry of k is
\* stored and not expired at its read.
C24_ExistsReadsOnly ==
  [][\A c \in Clients :
       (\/ cl[c].pc = "idle" /\ cl'[c].pc # "idle" /\ cl'[c].op = "exists"
        \/ cl[c].pc = "ex_read" /\ cl'[c].pc # "ex_read")
         => /\ UNCHANGED <<ino, fpath, tpath, lock>>
            /\ cl'[c].pc = "ret" => (cl'[c].ok = Live(cl'[c].key, cl'[c].gttl))]_vars

\* The write window of a set: from the creation of its lock marker to the
\* removal of the marker.  Its temp file exists, not yet renamed.
InWindow(c) == cl[c].pc \in {"set_open", "set_write", "set_rename", "set_unlock"}
HasTemp(c) == cl[c].pc \in {"set_write", "set_rename"}

\* C25 (SpecAtomic): no two sets of one key are inside their write windows at
\* the same time, and the lock marker of the key exists for as long as a set
\* has created its temp file and not yet renamed it.
C25_OneWriter ==
  /\ \A c, d \in Clients :
       (c # d /\ InWindow(c) /\ InWindow(d)) => cl[c].key # cl[d].key
  /\ \A c \in Clients : HasTemp(c) => lock[cl[c].key]

\* A mutation of slot r has written the event and answered 200.
Mutated(r) ==
  /\ rq[r].pc = "done" /\ rq[r].status = 200
  /\ rq[r].kind \in {"addGame", "removeGame", "vote"}
  /\ rq[r].fields # {}

\* C26 (SpecMutations): a mutation that answered 200 wrote the event its update
\* read with the games or the ballots replaced as a whole by the list it had
\* computed from its own earlier read; and when two mutations of one event have
\* both answered 200, the stored event, when it parses, is the document of one
\* of them alone, not a merge of the two.
C26_LaterWriteWins ==
  /\ \A r \in Slots :
       Mutated(r)
         => /\ "games" \in rq[r].fields => rq[r].doc.games = rq[r].games
            /\ "votes" \in rq[r].fields => rq[r].doc.votes = rq[r].votes
  /\ \A r, s \in Slots :
       (r # s /\ Mutated(r) /\ Mutated(s) /\ rq[r].id = rq[s].id
          /\ IsEvent(ReadEvent(rq[r].id)))
         => ReadEvent(rq[r].id) \in {rq[r].doc, rq[s].doc}

\* A vote and another mutation of the same event have both answered 200; the
\* stored event is the other mutation's document and has no ballot of the voter.
C26_Witness ==
  \E r, s \in Slots :
    /\ r # s
    /\ Mutated(r) /\ rq[r].kind = "vote"
    /\ Mutated(s) /\ rq[s].id = rq[r].id
    /\ ReadEvent(rq[r].id) = rq[s].doc
    /\ rq[r].fp \in DOMAIN rq[r].doc.votes
    /\ rq[r].fp \notin DOMAIN ReadEvent(rq[r].id).votes

(***************************************************************************)
(* The cache started over a directory that an interrupted write of k1 left *)
(* behind: a lock marker, a temp file, or both, next to whatever entries   *)
(* the directory holds.  One caller sets, the other reads, the cleanup     *)
(* runs.                                                                   *)
(***************************************************************************)
\* What the interrupted write left in k1.json.tmp: no file, an empty file, or
\* the first chunk of a two-chunk entry.
StaleTemps == {<<>>, <<Chunk(0, DefaultTTL, "a", 1)>>}

StaleFiles == {<<>>, <<Hole>>, Serialize(0, DefaultTTL, "a")}

InitStale ==
  /\ cfg = [maxCacheSize |-> 2, defaultTTL |-> DefaultTTL, maxAge |-> DefaultTTL]
  /\ now = 1
  /\ \E files \in [Keys -> StaleFiles], temp \in StaleTemps :
       /\ files["k1"] # <<Hole>>
       /\ files["k2"] # <<>>
       /\ files["k3"] = <<>>
       /\ fpath = [k \in Keys |-> IF files[k] = <<>> THEN NoIno ELSE KeyIno(k)]
       /\ \E hasTemp \in BOOLEAN :
            /\ tpath = [k \in Keys |-> IF k = "k1" /\ hasTemp THEN Cardinality(Keys) + 1 ELSE NoIno]
            /\ lock \in {[k \in Keys |-> k = "k1" /\ b] : b \in BOOLEAN}
            /\ hasTemp \/ lock["k1"]
            /\ ~hasTemp => temp = <<>>
       /\ ino = [i \in Inodes |->
                   IF i = Cardinality(Keys) + 1 THEN temp
                   ELSE IF \E k \in Keys : KeyIno(k) = i
                   THEN files[CHOOSE k \in Keys : KeyIno(k) = i]
                   ELSE <<>>]
  /\ cl = [c \in Clients |-> IdleClient]
  /\ sw = IdleSweep
  /\ sched = FALSE
  /\ EventsIdle
  /\ SyncIdle

NextStale ==
  \/ \E k \in HotKeys : SetCall("c1", k, "c", 0)
  \/ SetLock("c1") \/ SetOpen("c1") \/ SetWrite("c1") \/ SetRename("c1") \/ SetUnlock("c1") \/ SetStats("c1")
  \/ Return("c1")
  \/ \E k \in HotKeys : GetCall("c2", k, 0)
  \/ GetRead("c2") \/ GetDel("c2") \/ Return("c2")
  \/ SweepStart
  \/ SweepCollect
  \/ SweepCorrupt
  \/ SweepExpire
  \/ SweepEvict
  \/ SweepEnd
  \/ Tick

SpecStale == InitStale /\ [][NextStale]_vars

\* No set of key k has been called and not yet returned.
NoSetOf(k) == \A c \in Clients : ~(cl[c].op = "set" /\ cl[c].key = k /\ cl[c].pc # "idle")

\* C27 (SpecStale): when a cleanup has run to its end, no key that is not being
\* set has a temp file or a lock marker left: what an interrupted write left
\* behind is gone after the next sweep.
C27_StaleSwept ==
  (sw.pc = "done" /\ ~sw.aborted)
    => \A k \in Keys : NoSetOf(k) => (~lock[k] /\ tpath[k] = NoIno)

\* The cached games a checkForNewGames run found: those of the entry it met, or
\* none when that entry was absent or had expired.
FoundBy(s) == {<<>>} \cup (IF s.before.st = "entry" THEN {s.before.games} ELSE {})

\* C28 (SpecSync): after a checkForNewGames run that reported changes, the list
\* in the cache is the cached games whose ids are still in the summary followed
\* by the records fetched for the new ids; it holds no removed id, and its ids
\* are exactly the ids of the summary.
C28_MergedList ==
  (sy.pc = "done" /\ sy.kind = "check" /\ sy.wrote)
    => /\ entry.st = "entry"
       /\ \E existing \in FoundBy(sy) :
            entry.games = GamesIn(existing, Range(sy.items)) \o sy.detailedGames
       /\ Range(IdsOf(sy.detailedGames)) \subseteq Range(sy.newGameIds)
       /\ Range(IdsOf(entry.games)) \cap Range(sy.removedGameIds) = {}
       /\ Range(IdsOf(entry.games)) = Range(sy.items)

(***************************************************************************)
(* The detail requests of the collection route and the refresh route when  *)
(* two requests are served at once, under any catalog of Catalogs.         *)
(***************************************************************************)
InitFanout ==
  /\ CacheEmpty(RoomySize)
  /\ EventsIdle
  /\ sy = IdleSy
  /\ entry = NoEntry
  /\ past = [started |-> 0, completed |-> 0, items |-> <<>>]
  /\ cat \in Catalogs
  /\ runs = [q \in Slots |-> IdleRun]

NextFanout ==
  \E q \in Slots :
    \/ \E gameIds \in Summaries \ {<<>>} : FetchGameDetails(q, gameIds)
    \/ DetailGet(q)
    \/ DetailReply(q)
    \/ RateLimitOver(q)
    \/ DetailsReturn(q)

SpecFanout == InitFanout /\ [][NextFanout]_vars

\* C29 (SpecFanout): at most one detail request to the catalog is in flight at
\* any time, whatever number of requests is being served.
C29_OneDetailRequest == Cardinality({q \in Slots : runs[q].pc = "flight"}) <= 1

\* C30 (SpecFanout): before every detail request of a fetchGameDetails call but
\* its first, the timer of the rate limit has run out since the call's previous
\* request, whether that one succeeded or failed.
C30_RateLimit ==
  \A q \in Slots : \A j \in 1 .. Len(runs[q].gaps) : runs[q].gaps[j]

\* C31 (SpecSync): a sync whose collection request was answered 202 asks the
\* catalog once more, and only once; when the second answer is not a completed
\* one either, the caller gets a failure.
C31_RetryOn202 ==
  (sy.pc = "done" /\ sy.asked[1] = 202)
    => /\ Len(sy.asked) = 2
       /\ sy.asked[2] # 200 => sy.out.status \in {"error", "404"}

\* C32 (SpecEvents): create never replaces a stored event: when a create is about
\* to write its file, no file is stored under the id it drew.
C32_CreateIsFresh ==
  \A r \in Slots :
    (rq[r].kind = "create" /\ rq[r].pc = "wr_open") => efile[rq[r].id] = NoIno

\* An addGame of slot r has added a new game and answered 200.
Added(r) ==
  /\ rq[r].pc = "done" /\ rq[r].kind = "addGame" /\ rq[r].status = 200
  /\ rq[r].fields = {"games"}

\* C33 (SpecSolo): when addGame has added a new game and the ballots are the
\* same, the score the answer gives to a game that was there before is its
\* former score (the sum of N - i over its mentions, N the former number of
\* games) plus the number of its mentions.
C33_RescoredOnAdd ==
  \A r \in Slots :
    Added(r)
      => LET before == rq[r].seen
         IN  /\ ReadEvent(rq[r].id).votes = before.votes
             /\ Len(rq[r].scores) = Len(before.games) + 1
             /\ \A g \in Range(before.games) :
                  ScoreOf(rq[r].scores, g)
                    = PointsOf(Mentions(before, g), Len(before.games))
                        + Cardinality(Mentions(before, g))

\* B has been added to an event whose only game A is mentioned by two ballots:
\* the score of A went up by 2.
C33_Witness ==
  \E r \in Slots :
    /\ Added(r) /\ rq[r].game = "B"
    /\ rq[r].seen.games = <<"A">>
    /\ Cardinality(Mentions(rq[r].seen, "A")) = 2
    /\ ScoreOf(rq[r].scores, "A")
         = PointsOf(Mentions(rq[r].seen, "A"), 1) + 2

\* C34 (SpecAtomic): a set that returns false has not replaced the entry of its
\* key: false is returned from the catch only, and the catch is never entered
\* by a set whose rename has put its temp file in the place of the entry.
C34_FailedSetKeepsEntry ==
  [][\A c \in Clients :
       /\ (cl[c].pc # "ret" /\ cl'[c].pc = "ret" /\ cl'[c].op = "set" /\ ~cl'[c].ok)
            => cl[c].pc = "set_catch2"
       /\ (cl[c].pc # "set_catch1" /\ cl'[c].pc = "set_catch1")
            => cl[c].pc # "set_unlock"]_vars

\* The timestamp of the entry stored for key k, -1 when there is none that parses.
StoredTs(k) ==
  IF fpath[k] # NoIno /\ Parses(ino[fpath[k]]) THEN MetaOf(ino[fpath[k]]).ts ELSE 0 - 1

\* C35 (SpecStale): the unlink of an expired entry, by get or by the cleanup,
\* removes the entry whose metadata was judged expired, not an entry that a set
\* has put in its place since.
C35_ExpiryRemovesJudged ==
  [][/\ \A c \in Clients :
          (cl[c].pc = "get_del" /\ cl'[c].pc # "get_del" /\ fpath[cl[c].key] # NoIno)
            => StoredTs(cl[c].key) = cl[c].seenTs
     /\ (sw.pc = "expire" /\ sw' # sw /\ fpath[sw.infos[sw.idx].key] # NoIno)
          => StoredTs(sw.infos[sw.idx].key) = sw.infos[sw.idx].ts]_vars

\* No id stands at two places of the list.
Distinct(ids) == \A i, j \in 1 .. Len(ids) : i # j => ids[i] # ids[j]

(***************************************************************************)
(* addGame and removeGame requests of the creator on one stored event,     *)
(* served at once in any interleaving.                                     *)
(***************************************************************************)
InitGames ==
  /\ CacheEmpty(RoomySize)
  /\ \E games \in {<<"A">>, <<"A", "B">>}, votes \in {NoVotes, [f \in {"f1"} |-> <<"A">>]} :
       eino = [i \in EInodes |->
                 IF i = 1
                 THEN [NewEvent("e1", "u1", "Game Night", "t1") EXCEPT
                         !.createdAt = 0, !.games = games, !.votes = votes]
                 ELSE Truncated]
  /\ efile = [e \in EventIds |-> IF e = "e1" THEN 1 ELSE NoIno]
  /\ rq = [r \in Slots |-> IdleRq]
  /\ es = IdleES
  /\ SyncIdle

NextGames ==
  \E r \in Slots :
    \/ \E id \in HotEvents, g \in GameIds : AddGameCall(r, id, "t1", g)
    \/ \E id \in HotEvents, g \in GameIds : RemoveGameCall(r, id, "t1", g)
    \/ Verify(r)
    \/ AddGet(r)
    \/ RemGet(r)
    \/ UpdGet(r)
    \/ WrOpen(r)
    \/ WrWrite(r)
    \/ Finish(r)

SpecGames == InitGames /\ [][NextGames]_vars

\* C36 (SpecGames): under any interleaving of addGame and removeGame requests,
\* the ids in the games list of every stored event are pairwise distinct, and
\* so are the ids in every games list a request is about to write.
C36_GamesDistinct ==
  /\ \A ev \in StoredEvents : IsEvent(ev) => Distinct(ev.games)
  /\ \A r \in Slots : IsEvent(rq[r].doc) => Distinct(rq[r].doc.games)

\* Two addGame requests of the same game ran at once, both added it to the list
\* they had read and both answered 200: the stored list has the game once.
C36_Witness ==
  \E r, s \in Slots :
    /\ r # s /\ Added(r) /\ Added(s)
    /\ rq[r].id = rq[s].id /\ rq[r].game = rq[s].game
    /\ IsEvent(ReadEvent(rq[r].id))
    /\ rq[r].game \in Range(ReadEvent(rq[r].id).games)
    /\ Distinct(ReadEvent(rq[r].id).games)

\* C37 (SpecMutations): in every stored event, every mention of a game in a
\* ballot earns at least 1 point, so the score of every game is at least its
\* voteCount and never negative.
C37_MentionsEarn ==
  \A ev \in StoredEvents :
    IsEvent(ev)
      => /\ \A g \in Range(ev.games) :
              \A p \in Mentions(ev, g) : Len(ev.games) - p[2] >= 1
         /\ \A k \in Range(calculateScores(ev)) : k.score >= k.voteCount /\ k.score >= 0

====
